---------------------------- MODULE Spec2Model ----------------------------
(***************************************************************************)
(* A model of gluino: the variable-length integer codec (util.rs), the     *)
(* schema wire codec (spec.rs), the schema compiler and its fingerprint    *)
(* (compiled_spec.rs, fingerprint.rs) and the value codec synthesizer      *)
(* (serde/).                                                               *)
(*                                                                         *)
(* Representation.  TLC integers are 32 bits wide, so a u64 or u128 is a   *)
(* little-endian tuple of 8 or 16 bytes and every operation on it is done  *)
(* bytewise.  A Rust String is the tuple of its UTF-8 bytes.  A SHA-256    *)
(* digest is represented by the byte string that was hashed (the hash is   *)
(* taken to be collision free).                                            *)
(***************************************************************************)
EXTENDS Integers, Sequences, FiniteSets, TLC

VARIABLES
    mode,       \* which subsystem this behaviour exercises
    pc,         \* position of the driver inside that subsystem
    z,          \* varint: the unsigned value, little-endian bytes
    target,     \* varint: BYTE_LEN of the decoding target B
    wire,       \* the byte sink / source
    vresult,    \* varint: what variable_lenth_decode returned
    spec,       \* the authored schema (a Spec)
    reported_size, \* schema wire codec: the usize that write_as_bytes returned
    parsed,     \* schema wire codec: what Spec::read_from_bytes returned
    compiled,   \* schema compiler: what CompiledSpec::compile returned
    respec,     \* schema compiler: what to_spec returned
    schema,     \* value codec: the compiled schema and the context of its Arcs
    gvalue,     \* value codec: the GluinoValue handed to the encoder
    overflow_checks, \* value codec: the build checks arithmetic overflow
    unit_ser,   \* value codec: what get_unit_serialization_function returned
    serialized, \* value codec: what serialize returned
    unit_de,    \* value codec: what get_unit_deserialization_function returned
    decoded     \* value codec: what deserialize returned

vars ==
    <<mode, pc, z, target, wire, vresult, spec, reported_size, parsed, compiled, respec,
      schema, gvalue, overflow_checks, unit_ser, serialized, unit_de, decoded>>

varintVars == <<z, target, vresult>>
wireVars == <<reported_size, parsed>>
compileVars == <<compiled, respec>>
valueVars == <<schema, gvalue, overflow_checks, unit_ser, serialized, unit_de, decoded>>

None == [k |-> "None"]

----------------------------------------------------------------------------
(* Bytes and fixed-width unsigned integers                                 *)

Byte == 0..255

\* x >> s on a u8
ShrByte(x, s) == x \div (2 ^ s)

\* x.checked_shl(s).unwrap_or(0) on a u8: None when s >= 8 bits
CheckedShlByte(x, s) == IF s >= 8 THEN 0 ELSE (x * (2 ^ s)) % 256

RECURSIVE BitOr(_, _)
\* a | b on non-negative integers
BitOr(a, b) ==
    IF a = 0 THEN b
    ELSE IF b = 0 THEN a
    ELSE (IF a % 2 = 1 \/ b % 2 = 1 THEN 1 ELSE 0) + 2 * BitOr(a \div 2, b \div 2)

\* a tuple given as a function, with its elements evaluated once
Tup(f) == f \o <<>>

\* the little-endian bytes of a small number n, w bytes wide
LeBytes(n, w) ==
    Tup([i \in 1..w |-> IF i <= 4 THEN (n \div (256 ^ (i - 1))) % 256 ELSE 0])

\* n as u64
U64(n) == LeBytes(n, 8)

\* a little-endian tuple without its high zero bytes
RECURSIVE TrimLe(_)
TrimLe(b) == IF Len(b) > 0 /\ b[Len(b)] = 0 THEN TrimLe(SubSeq(b, 1, Len(b) - 1)) ELSE b

\* two little-endian tuples denote the same number
SameNumber(a, b) == TrimLe(a) = TrimLe(b)

\* the number of significant bytes of a little-endian tuple
SigBytes(b) == Len(TrimLe(b))

RECURSIVE LeLess(_, _, _)
\* a < b for little-endian tuples of one length, compared from byte i down
LeLess(a, b, i) ==
    IF i = 0 THEN FALSE
    ELSE IF a[i] # b[i] THEN a[i] < b[i]
    ELSE LeLess(a, b, i - 1)

\* a <= b on u64
U64Leq(a, b) == ~LeLess(b, a, 8)

\* the value of a little-endian tuple that is known to be small
RECURSIVE ToNat(_)
ToNat(b) == IF Len(b) = 0 THEN 0 ELSE b[1] + 256 * ToNat(Tail(b))

\* a little-endian tuple is small enough to be a TLC integer
IsSmall(b) == SigBytes(b) <= 3

----------------------------------------------------------------------------
(* util.rs: the variable-length integer codec                              *)

MAX_LANG_BYTES == 16

\* z > 0x7F
Above7F(zb) == zb[1] > 127 \/ \E i \in 2..Len(zb) : zb[i] # 0

\* z >>= 7
Shr7(zb) ==
    Tup([i \in 1..Len(zb) |->
        (zb[i] \div 128) + (IF i < Len(zb) THEN (zb[i + 1] % 128) * 2 ELSE 0)])

RECURSIVE variable_length_encode(_)
\* the bytes variable_length_encode_u64 / _u128 write for z
variable_length_encode(zb) ==
    IF Above7F(zb)
    THEN <<128 + (zb[1] % 128)>> \o variable_length_encode(Shr7(zb))
    ELSE <<zb[1] % 128>>

\* the state of the loop of variable_lenth_decode before its first iteration
DecodeStart(input) ==
    [read_buffer |-> Tup([i \in 1..MAX_LANG_BYTES |-> 0]),
     tracking_index |-> 0,
     overflow |-> <<>>,
     shift_offset |-> 0,
     last_byte_reached |-> FALSE,
     input |-> input,
     eof |-> FALSE]

\* a spill that leaves the last byte of the target behind
DecodeSpillAll(d, byteLen) ==
    IF d.tracking_index >= byteLen
    THEN [d EXCEPT !.overflow = @ \o SubSeq(d.read_buffer, 1, byteLen - 1),
                   !.tracking_index = 1]
    ELSE d

\* the top of the loop body: spill into overflow once the target is full
DecodeSpill(d, byteLen) ==
    IF d.tracking_index >= byteLen
    THEN [d EXCEPT !.overflow = @ \o SubSeq(d.read_buffer, 1, byteLen - 1),
                   !.tracking_index = 1,
                   !.read_buffer = [@ EXCEPT ![1] = d.read_buffer[byteLen]]]
    ELSE d

\* the Ok(()) arm: merge the 7 payload bits of the byte just read
DecodeMerge(d, b) ==
    LET ti == d.tracking_index
        so == d.shift_offset
        cur == b % 128
        buf1 == IF ti > 0
                THEN [d.read_buffer EXCEPT
                        ![ti] = BitOr(@, CheckedShlByte(cur, 8 - (so % 8))),
                        ![ti + 1] = ShrByte(cur, so % 8)]
                ELSE [d.read_buffer EXCEPT ![ti + 1] = cur]
        so1 == so + 1
        ti1 == IF so1 >= 8 /\ so1 % 8 = 0 THEN ti - 1 ELSE ti
    IN [d EXCEPT !.last_byte_reached = (b < 128),
                 !.read_buffer = buf1,
                 !.shift_offset = so1,
                 !.tracking_index = ti1 + 1,
                 !.input = Tail(d.input)]

RECURSIVE DecodeLoop(_, _)
\* while !last_byte_reached { ... }
DecodeLoop(d, byteLen) ==
    IF d.last_byte_reached THEN d
    ELSE LET s == DecodeSpill(d, byteLen)
         IN IF Len(s.input) = 0
            THEN [s EXCEPT !.eof = TRUE]
            ELSE DecodeLoop(DecodeMerge(s, Head(s.input)), byteLen)

\* the test after the loop: does the value go into B
FitsTarget(d, byteLen) == Len(d.overflow) = 0 /\ d.tracking_index < byteLen

\* variable_lenth_decode::<B>, B of byteLen bytes; rest is the unread input
variable_lenth_decode(input, byteLen) ==
    LET d == DecodeLoop(DecodeStart(input), byteLen)
    IN IF d.eof
       THEN [k |-> "Err", err |-> "IncompleteVariableLengthEncoding", rest |-> d.input]
       ELSE IF FitsTarget(d, byteLen)
       THEN [k |-> "Respresentable",
             v |-> SubSeq(d.read_buffer, 1, byteLen), rest |-> d.input]
       ELSE [k |-> "Unrepresentable",
             v |-> d.overflow \o SubSeq(d.read_buffer, 1, d.tracking_index),
             rest |-> d.input]

variable_length_decode_u64(input) == variable_lenth_decode(input, 8)

----------------------------------------------------------------------------
(* spec.rs: the schema AST                                                 *)

Spec_Bool == [k |-> "Bool"]
Spec_Void == [k |-> "Void"]
Spec_Uint(n) == [k |-> "Uint", n |-> n]
Spec_Int(n) == [k |-> "Int", n |-> n]
Spec_BinaryFloatingPoint(fmt) == [k |-> "BinaryFloatingPoint", fmt |-> fmt]
Spec_DecimalFloatingPoint(fmt) == [k |-> "DecimalFloatingPoint", fmt |-> fmt]
Spec_Decimal(precision, scale) ==
    [k |-> "Decimal", precision |-> precision, scale |-> scale]
Spec_Map(size, key_spec, value_spec) ==
    [k |-> "Map", size |-> size, key_spec |-> key_spec, value_spec |-> value_spec]
Spec_List(size, value_spec) == [k |-> "List", size |-> size, value_spec |-> value_spec]
Spec_String(size, fmt) == [k |-> "String", size |-> size, fmt |-> fmt]
Spec_Bytes(size) == [k |-> "Bytes", size |-> size]
Spec_Optional(s) == [k |-> "Optional", spec |-> s]
Spec_Name(name, s) == [k |-> "Name", name |-> name, spec |-> s]
Spec_Ref(name) == [k |-> "Ref", name |-> name]
\* fields and variants: a tuple of <<name, spec>> pairs, or of specs
Spec_Record(fields) == [k |-> "Record", fields |-> fields]
Spec_Tuple(fields) == [k |-> "Tuple", fields |-> fields]
Spec_Enum(variants) == [k |-> "Enum", variants |-> variants]
Spec_Union(variants) == [k |-> "Union", variants |-> variants]

Size_Fixed(n) == [k |-> "Fixed", n |-> n]
\* Size::Range(r) of serde/ser_impls.rs, r.start and r.end being u64
Size_Range(start, end) == [k |-> "Range", start |-> start, end |-> end]
Size_Variable == [k |-> "Variable"]

InterchangeBinaryFloatingPointFormat == <<"Half", "Single", "Double", "Quadruple", "Octuple">>
InterchangeDecimalFloatingPointFormat == <<"Dec32", "Dec64", "Dec128">>
StringEncodingFmt == <<"Utf8", "Utf16", "Ascii">>

\* the position of x in the tuple t, from 0, as the encode / decode matches number it
IndexOf(t, x) == (CHOOSE i \in 1..Len(t) : t[i] = x) - 1

\* core tags
BOOL == 32
UINT == 33
NAME == 34
INT == 35
BINARY_FP == 36
DECIMAL_FP == 37
REF == 38
VOID == 39
LIST == 40
MAP == 41
RECORD == 42
\* ENUM, UNION and STRING of spec.rs (reserved words here)
ENUM_TAG == 43
UNION_TAG == 45
DECIMAL == 46
TUPLE == 47
BYTES == 48
STRING_TAG == 49
OPTIONAL == 63

\* aliases
UINT_0 == 0
INT_0 == 4
SINGLE_FP == 8
DOUBLE_FP == 9
UTF8_STRING == 10

----------------------------------------------------------------------------
(* spec.rs: Spec::to_bytes.  A write into the sink is the pair of the      *)
(* count it returned and the bytes it appended.                            *)

\* out.write(bytes) / write_all_size(bytes) on a sink that takes every byte
Written(bytes) == [n |-> Len(bytes), out |-> bytes]

\* a? + b?, and combine(a, b), of two writes made one after the other
combine(a, b) == [n |-> a.n + b.n, out |-> a.out \o b.out]

variable_length_encode_u64(n) == Written(variable_length_encode(n))

\* an encode_string_utf8 that returns the count of the string bytes only
encode_string_uncounted(string) ==
    [n |-> Len(string),
     out |-> variable_length_encode_u64(U64(Len(string))).out \o string]

encode_string_utf8(string) ==
    combine(variable_length_encode_u64(U64(Len(string))), Written(string))

Size_encode(size) ==
    IF size.k = "Fixed"
    THEN combine(Written(<<0>>), variable_length_encode_u64(size.n))
    ELSE Written(<<1>>)

BinaryFormat_encode(fmt) == Written(<<IndexOf(InterchangeBinaryFloatingPointFormat, fmt)>>)
DecimalFormat_encode(fmt) == Written(<<IndexOf(InterchangeDecimalFloatingPointFormat, fmt)>>)
StringEncodingFmt_encode(fmt) == Written(<<IndexOf(StringEncodingFmt, fmt)>>)

\* an integer arm that has no aliases
IntegerBytesGeneral(alias0, tag, scale) == Written(<<tag, scale>>)

\* Spec::Uint(scale) / Spec::Int(scale): the alias for 0..3, else the tag and the scale
IntegerBytes(alias0, tag, scale) ==
    IF scale <= 3 THEN Written(<<alias0 + scale>>) ELSE Written(<<tag, scale>>)

BinaryFloatingPointBytes(fmt) ==
    IF fmt = "Single" THEN Written(<<SINGLE_FP>>)
    ELSE IF fmt = "Double" THEN Written(<<DOUBLE_FP>>)
    ELSE combine(Written(<<BINARY_FP>>), BinaryFormat_encode(fmt))

StringBytes(size, fmt) ==
    IF size.k = "Variable" /\ fmt = "Utf8"
    THEN Written(<<UTF8_STRING>>)
    ELSE combine(combine(Written(<<STRING_TAG>>), Size_encode(size)),
                 StringEncodingFmt_encode(fmt))

RECURSIVE to_bytes_internal(_), NamedSpecsBytes(_, _), SpecsBytes(_, _)

\* fields.iter().map(|(name, spec)| combine(..)).fold(Ok(0), combine), from entry i
NamedSpecsBytes(fields, i) ==
    IF i > Len(fields) THEN Written(<<>>)
    ELSE combine(combine(encode_string_utf8(fields[i][1]), to_bytes_internal(fields[i][2])),
                 NamedSpecsBytes(fields, i + 1))

\* fields.iter().map(|spec| to_bytes_internal(..)).fold(Ok(0), combine), from entry i
SpecsBytes(fields, i) ==
    IF i > Len(fields) THEN Written(<<>>)
    ELSE combine(to_bytes_internal(fields[i]), SpecsBytes(fields, i + 1))

to_bytes_internal(s) ==
    CASE s.k = "Bool" -> Written(<<BOOL>>)
      [] s.k = "Uint" -> IntegerBytes(UINT_0, UINT, s.n)
      [] s.k = "Int" -> IntegerBytes(INT_0, INT, s.n)
      [] s.k = "BinaryFloatingPoint" -> BinaryFloatingPointBytes(s.fmt)
      [] s.k = "DecimalFloatingPoint" ->
            combine(Written(<<DECIMAL_FP>>), DecimalFormat_encode(s.fmt))
      [] s.k = "Decimal" ->
            combine(combine(Written(<<DECIMAL>>), variable_length_encode_u64(s.precision)),
                    variable_length_encode_u64(s.scale))
      [] s.k = "Map" ->
            combine(combine(combine(Written(<<MAP>>), Size_encode(s.size)),
                            to_bytes_internal(s.key_spec)),
                    to_bytes_internal(s.value_spec))
      [] s.k = "List" ->
            combine(combine(Written(<<LIST>>), Size_encode(s.size)),
                    to_bytes_internal(s.value_spec))
      [] s.k = "String" -> StringBytes(s.size, s.fmt)
      [] s.k = "Bytes" -> combine(Written(<<BYTES>>), Size_encode(s.size))
      [] s.k = "Optional" -> combine(Written(<<OPTIONAL>>), to_bytes_internal(s.spec))
      [] s.k = "Name" ->
            combine(combine(Written(<<NAME>>), encode_string_utf8(s.name)),
                    to_bytes_internal(s.spec))
      [] s.k = "Ref" -> combine(Written(<<REF>>), encode_string_utf8(s.name))
      [] s.k = "Record" ->
            combine(combine(Written(<<RECORD>>),
                            variable_length_encode_u64(U64(Len(s.fields)))),
                    NamedSpecsBytes(s.fields, 1))
      [] s.k = "Tuple" ->
            combine(combine(Written(<<TUPLE>>),
                            variable_length_encode_u64(U64(Len(s.fields)))),
                    SpecsBytes(s.fields, 1))
      [] s.k = "Enum" ->
            combine(combine(Written(<<ENUM_TAG>>),
                            variable_length_encode_u64(U64(Len(s.variants)))),
                    NamedSpecsBytes(s.variants, 1))
      [] s.k = "Union" ->
            combine(combine(Written(<<UNION_TAG>>),
                            variable_length_encode_u64(U64(Len(s.variants)))),
                    SpecsBytes(s.variants, 1))
      [] s.k = "Void" -> Written(<<VOID>>)

\* Spec::to_bytes
to_bytes(s) == to_bytes_internal(s).out

----------------------------------------------------------------------------
(* spec.rs: Spec::read_from_bytes.  A read returns Ok(v) or Err(err),      *)
(* and rest, the input it left unread.                                     *)

Ok(v, rest) == [ok |-> TRUE, v |-> v, rest |-> rest]
Err(e, rest) == [ok |-> FALSE, err |-> e, rest |-> rest]

next_byte(input) ==
    IF Len(input) = 0 THEN Err([k |-> "UnexpectedEndOfBytes"], input)
    ELSE Ok(Head(input), Tail(input))

\* the ? of the source: an Err returns at once, an Ok value goes on to K
Try(r, K(_)) == IF r.ok THEN K(r) ELSE r

U64Result(r) ==
    CASE r.k = "Respresentable" -> Ok(r.v, r.rest)
      [] r.k = "Unrepresentable" ->
            Err([k |-> "IntegerOverflowVariableLengthDecodingError", v |-> r.v], r.rest)
      [] r.k = "Err" ->
            Err([k |-> "VariableLengthDecodingError", e |-> r.err], r.rest)

decode_u64(input) == U64Result(variable_length_decode_u64(input))

\* a u64 count as a number of loop rounds; no input holds MaxRounds items
MaxRounds == 65536
Rounds(n) == IF SigBytes(n) <= 2 THEN ToNat(TrimLe(n)) ELSE MaxRounds

InRange(b, lo, hi) == lo <= b /\ b <= hi

RECURSIVE IsUtf8(_)
\* the validation read_to_string makes (well-formed UTF-8 byte sequences)
IsUtf8(b) ==
    LET n == Len(b)
        tail(i) == InRange(b[i], 128, 191)
    IN IF n = 0 THEN TRUE
       ELSE IF b[1] <= 127 THEN IsUtf8(SubSeq(b, 2, n))
       ELSE IF InRange(b[1], 194, 223)
       THEN n >= 2 /\ tail(2) /\ IsUtf8(SubSeq(b, 3, n))
       ELSE IF InRange(b[1], 224, 239)
       THEN /\ n >= 3
            /\ IF b[1] = 224 THEN InRange(b[2], 160, 191)
               ELSE IF b[1] = 237 THEN InRange(b[2], 128, 159)
               ELSE tail(2)
            /\ tail(3)
            /\ IsUtf8(SubSeq(b, 4, n))
       ELSE IF InRange(b[1], 240, 244)
       THEN /\ n >= 4
            /\ IF b[1] = 240 THEN InRange(b[2], 144, 191)
               ELSE IF b[1] = 244 THEN InRange(b[2], 128, 143)
               ELSE tail(2)
            /\ tail(3) /\ tail(4)
            /\ IsUtf8(SubSeq(b, 5, n))
       ELSE FALSE

\* input.take(n).read_to_string(&mut s): n_actual of the want bytes are there
ReadToString(input, want, n_actual) ==
    IF ~IsUtf8(SubSeq(input, 1, n_actual))
    THEN Err([k |-> "ReadError", e |-> "InvalidData"],
             SubSeq(input, n_actual + 1, Len(input)))
    ELSE IF n_actual < want
    THEN Err([k |-> "UnexpectedEndOfBytes"], SubSeq(input, n_actual + 1, Len(input)))
    ELSE Ok(SubSeq(input, 1, n_actual), SubSeq(input, n_actual + 1, Len(input)))

decode_utf8_string(input) ==
    Try(decode_u64(input), LAMBDA n :
        ReadToString(n.rest, Rounds(n.v),
                     IF Rounds(n.v) < Len(n.rest) THEN Rounds(n.v) ELSE Len(n.rest)))

Size_decode(input) ==
    Try(next_byte(input), LAMBDA b :
        IF b.v = 0
        THEN Try(decode_u64(b.rest), LAMBDA n : Ok(Size_Fixed(n.v), n.rest))
        ELSE IF b.v = 1 THEN Ok(Size_Variable, b.rest)
        ELSE Err([k |-> "UnknownSizeFormatFlag", b |-> b.v], b.rest))

\* the decode of the three one-byte format enumerations
FormatDecode(input, formats, unknown) ==
    Try(next_byte(input), LAMBDA b :
        IF b.v < Len(formats) THEN Ok(formats[b.v + 1], b.rest)
        ELSE Err([k |-> unknown, b |-> b.v], b.rest))

BinaryFormat_decode(input) ==
    FormatDecode(input, InterchangeBinaryFloatingPointFormat, "UnknownBinaryFormatFlag")
DecimalFormat_decode(input) ==
    FormatDecode(input, InterchangeDecimalFloatingPointFormat, "UnknownDecimalFormatFlag")
StringEncodingFmt_decode(input) ==
    FormatDecode(input, StringEncodingFmt, "UnknownStringFormatFlag")

\* the arms of read_from_bytes that read no nested Spec
ReadLeaf(flag, input) ==
    CASE flag = BOOL -> Ok(Spec_Bool, input)
      [] flag = VOID -> Ok(Spec_Void, input)
      [] flag = UINT ->
            Try(next_byte(input), LAMBDA b : Ok(Spec_Uint(b.v), b.rest))
      [] flag = INT ->
            Try(next_byte(input), LAMBDA b : Ok(Spec_Int(b.v), b.rest))
      [] flag = REF ->
            Try(decode_utf8_string(input), LAMBDA n : Ok(Spec_Ref(n.v), n.rest))
      [] flag = BINARY_FP ->
            Try(BinaryFormat_decode(input), LAMBDA f :
                Ok(Spec_BinaryFloatingPoint(f.v), f.rest))
      [] flag = DECIMAL_FP ->
            Try(DecimalFormat_decode(input), LAMBDA f :
                Ok(Spec_DecimalFloatingPoint(f.v), f.rest))
      [] flag = DECIMAL ->
            Try(decode_u64(input), LAMBDA precision :
            Try(decode_u64(precision.rest), LAMBDA scale :
                Ok(Spec_Decimal(precision.v, scale.v), scale.rest)))
      [] flag = BYTES ->
            Try(Size_decode(input), LAMBDA size : Ok(Spec_Bytes(size.v), size.rest))
      [] flag = STRING_TAG ->
            Try(Size_decode(input), LAMBDA size :
            Try(StringEncodingFmt_decode(size.rest), LAMBDA str_fmt :
                Ok(Spec_String(size.v, str_fmt.v), str_fmt.rest)))
      [] flag \in UINT_0..(UINT_0 + 3) -> Ok(Spec_Uint(flag - UINT_0), input)
      [] flag \in INT_0..(INT_0 + 3) -> Ok(Spec_Int(flag - INT_0), input)
      [] flag = SINGLE_FP -> Ok(Spec_BinaryFloatingPoint("Single"), input)
      [] flag = DOUBLE_FP -> Ok(Spec_BinaryFloatingPoint("Double"), input)
      [] flag = UTF8_STRING -> Ok(Spec_String(Size_Variable, "Utf8"), input)
      [] OTHER -> Err([k |-> "UnknownSpecFlag", flag |-> flag], input)

RECURSIVE read_from_bytes(_), ReadNamedSpecs(_, _, _), ReadSpecs(_, _, _),
          ReadSpec(_, _)

\* for _ in 0..n { v.push((decode_utf8_string(input)?, read_from_bytes(input)?)) }
ReadNamedSpecs(input, n, v) ==
    IF n = 0 THEN Ok(v, input)
    ELSE Try(decode_utf8_string(input), LAMBDA name :
         Try(read_from_bytes(name.rest), LAMBDA s :
             ReadNamedSpecs(s.rest, n - 1, Append(v, <<name.v, s.v>>))))

\* for _ in 0..n { v.push(read_from_bytes(input)?) }
ReadSpecs(input, n, v) ==
    IF n = 0 THEN Ok(v, input)
    ELSE Try(read_from_bytes(input), LAMBDA s :
             ReadSpecs(s.rest, n - 1, Append(v, s.v)))

\* the match on the flag byte
ReadSpec(flag, input) ==
    CASE flag = NAME ->
            Try(decode_utf8_string(input), LAMBDA name :
            Try(read_from_bytes(name.rest), LAMBDA s :
                Ok(Spec_Name(name.v, s.v), s.rest)))
      [] flag = LIST ->
            Try(Size_decode(input), LAMBDA size :
            Try(read_from_bytes(size.rest), LAMBDA s :
                Ok(Spec_List(size.v, s.v), s.rest)))
      [] flag = MAP ->
            Try(Size_decode(input), LAMBDA size :
            Try(read_from_bytes(size.rest), LAMBDA key :
            Try(read_from_bytes(key.rest), LAMBDA val :
                Ok(Spec_Map(size.v, key.v, val.v), val.rest))))
      [] flag = OPTIONAL ->
            Try(read_from_bytes(input), LAMBDA s : Ok(Spec_Optional(s.v), s.rest))
      [] flag \in {RECORD, ENUM_TAG} ->
            Try(decode_u64(input), LAMBDA n :
            Try(ReadNamedSpecs(n.rest, Rounds(n.v), <<>>), LAMBDA v :
                IF flag = RECORD THEN Ok(Spec_Record(v.v), v.rest)
                ELSE Ok(Spec_Enum(v.v), v.rest)))
      [] flag \in {TUPLE, UNION_TAG} ->
            Try(decode_u64(input), LAMBDA n :
            Try(ReadSpecs(n.rest, Rounds(n.v), <<>>), LAMBDA v :
                IF flag = TUPLE THEN Ok(Spec_Tuple(v.v), v.rest)
                ELSE Ok(Spec_Union(v.v), v.rest)))
      [] OTHER -> ReadLeaf(flag, input)

read_from_bytes(input) ==
    Try(next_byte(input), LAMBDA flag : ReadSpec(flag.v, flag.rest))


----------------------------------------------------------------------------
(* The longform bytes of a Spec, the input of the fingerprint: the wire    *)
(* form of to_bytes in which no alias is used.                             *)

RECURSIVE to_longform_bytes(_), NamedLongformBytes(_, _), LongformBytes(_, _)

NamedLongformBytes(fields, i) ==
    IF i > Len(fields) THEN <<>>
    ELSE encode_string_utf8(fields[i][1]).out \o to_longform_bytes(fields[i][2])
            \o NamedLongformBytes(fields, i + 1)

LongformBytes(fields, i) ==
    IF i > Len(fields) THEN <<>>
    ELSE to_longform_bytes(fields[i]) \o LongformBytes(fields, i + 1)

to_longform_bytes(s) ==
    CASE s.k = "Uint" -> <<UINT, s.n>>
      [] s.k = "Int" -> <<INT, s.n>>
      [] s.k = "BinaryFloatingPoint" -> <<BINARY_FP>> \o BinaryFormat_encode(s.fmt).out
      [] s.k = "String" ->
            <<STRING_TAG>> \o Size_encode(s.size).out \o StringEncodingFmt_encode(s.fmt).out
      [] s.k = "Map" ->
            <<MAP>> \o Size_encode(s.size).out \o to_longform_bytes(s.key_spec)
                \o to_longform_bytes(s.value_spec)
      [] s.k = "List" -> <<LIST>> \o Size_encode(s.size).out \o to_longform_bytes(s.value_spec)
      [] s.k = "Optional" -> <<OPTIONAL>> \o to_longform_bytes(s.spec)
      [] s.k = "Name" ->
            <<NAME>> \o encode_string_utf8(s.name).out \o to_longform_bytes(s.spec)
      [] s.k = "Record" ->
            <<RECORD>> \o variable_length_encode(U64(Len(s.fields)))
                \o NamedLongformBytes(s.fields, 1)
      [] s.k = "Tuple" ->
            <<TUPLE>> \o variable_length_encode(U64(Len(s.fields)))
                \o LongformBytes(s.fields, 1)
      [] s.k = "Enum" ->
            <<ENUM_TAG>> \o variable_length_encode(U64(Len(s.variants)))
                \o NamedLongformBytes(s.variants, 1)
      [] s.k = "Union" ->
            <<UNION_TAG>> \o variable_length_encode(U64(Len(s.variants)))
                \o LongformBytes(s.variants, 1)
      [] OTHER -> to_bytes(s)

----------------------------------------------------------------------------
(* compiled_spec.rs: compiled schemas.  An Arc<CompiledSpec> held in a     *)
(* named_schema is "placeholder", the Arc of invalid_compiled_spec made    *)
(* when the name was entered, or "resolved", the Arc stored in the context *)
(* when the body of the name was compiled; the context is the heap in      *)
(* which a resolved Arc is looked up.                                      *)

\* a map given as a function, with its entries evaluated once
Fn(f) == f @@ <<>>

Structure_Name(name) == [k |-> "Name", name |-> name]
Structure_Decimal(fmt) == [k |-> "Decimal", fmt |-> fmt]
Structure_Map(size, key_spec, value_spec) ==
    [k |-> "Map", size |-> size, key_spec |-> key_spec, value_spec |-> value_spec]
Structure_List(size, value_spec) == [k |-> "List", size |-> size, value_spec |-> value_spec]
Structure_Optional(cs) == [k |-> "Optional", spec |-> cs]
Structure_Record(fields, field_to_spec, field_to_index) ==
    [k |-> "Record", fields |-> fields, field_to_spec |-> field_to_spec,
     field_to_index |-> field_to_index]
Structure_Tuple(fields) == [k |-> "Tuple", fields |-> fields]
Structure_Enum(variants, variant_to_spec) ==
    [k |-> "Enum", variants |-> variants, variant_to_spec |-> variant_to_spec]
Structure_Union(variants) == [k |-> "Union", variants |-> variants]

CompiledSpec(fingerprint, named_schema, structure) ==
    [fingerprint |-> fingerprint, named_schema |-> named_schema, structure |-> structure]

\* SpecCompileError
DuplicateName(name) == [k |-> "DuplicateName", name |-> name]
UndefinedName(name) == [k |-> "UndefinedName", name |-> name]
DuplicateRecordFieldNames(names) == [k |-> "DuplicateRecordFieldNames", names |-> names]
DuplicateEnumVariantNames(names) == [k |-> "DuplicateEnumVariantNames", names |-> names]
DuplicateUnionVariantSpecs(specs) == [k |-> "DuplicateUnionVariantSpecs", specs |-> specs]
InfinitelyRecursiveTypes(names) == [k |-> "InfinitelyRecursiveTypes", names |-> names]
IllegalDecimalFmt == [k |-> "IllegalDecimalFmt"]

\* the fingerprint of the placeholder: the hash of the longform bytes of Spec::Void
invalid_compiled_spec ==
    CompiledSpec(to_longform_bytes(Spec_Void), <<>>, Spec_Void)

\* the entries of the context
Placeholder == [placeholder |-> TRUE, cs |-> invalid_compiled_spec]
Resolved(cs) == [placeholder |-> FALSE, cs |-> cs]

\* context.get(name).unwrap().clone(), as it is kept in a named_schema
Pointer(context, name) == IF context[name].placeholder THEN "placeholder" ELSE "resolved"

\* the CompiledSpec behind an Arc of a named_schema
Deref(heap, named_schema, name) ==
    IF named_schema[name] = "placeholder" THEN invalid_compiled_spec ELSE heap[name].cs

\* the result of make_spec_internal: the Spec and names_converted, or the
\* panic of context.get(name).unwrap() on a name the context does not hold
Made(s, names_converted) == [ok |-> TRUE, spec |-> s, conv |-> names_converted]
MadePanic == [ok |-> FALSE]

RECURSIVE make_spec_internal(_, _, _, _), MakeSpecs(_, _, _, _, _)

\* structures.iter().map(|s| make_spec_internal(context, names_converted, s)), from entry i
MakeSpecs(heap, context, names_converted, structures, i) ==
    IF i > Len(structures) THEN Made(<<>>, names_converted)
    ELSE LET s == make_spec_internal(heap, context, names_converted, structures[i])
         IN IF ~s.ok THEN s
            ELSE LET rest == MakeSpecs(heap, context, s.conv, structures, i + 1)
                 IN IF ~rest.ok THEN rest ELSE Made(<<s.spec>> \o rest.spec, rest.conv)

make_spec_internal(heap, context, names_converted, structure) ==
    CASE structure.k = "Decimal" ->
            Made(Spec_Decimal(structure.fmt.precision, structure.fmt.scale), names_converted)
      [] structure.k = "Map" ->
            LET kv == MakeSpecs(heap, context, names_converted,
                                <<structure.key_spec.structure,
                                  structure.value_spec.structure>>, 1)
            IN IF ~kv.ok THEN kv
               ELSE Made(Spec_Map(structure.size, kv.spec[1], kv.spec[2]), kv.conv)
      [] structure.k = "List" ->
            LET v == make_spec_internal(heap, context, names_converted,
                                        structure.value_spec.structure)
            IN IF ~v.ok THEN v ELSE Made(Spec_List(structure.size, v.spec), v.conv)
      [] structure.k = "Optional" ->
            LET v == make_spec_internal(heap, context, names_converted,
                                        structure.spec.structure)
            IN IF ~v.ok THEN v ELSE Made(Spec_Optional(v.spec), v.conv)
      [] structure.k = "Name" ->
            IF structure.name \in names_converted
            THEN Made(Spec_Ref(structure.name), names_converted)
            ELSE IF structure.name \notin DOMAIN context THEN MadePanic
            ELSE LET v == make_spec_internal(
                              heap, context, names_converted \cup {structure.name},
                              Deref(heap, context, structure.name).structure)
                 IN IF ~v.ok THEN v ELSE Made(Spec_Name(structure.name, v.spec), v.conv)
      [] structure.k \in {"Record", "Enum"} ->
            LET names == IF structure.k = "Record" THEN structure.fields
                         ELSE structure.variants
                to_spec_map == IF structure.k = "Record" THEN structure.field_to_spec
                               ELSE structure.variant_to_spec
                v == MakeSpecs(heap, context, names_converted,
                               Tup([i \in 1..Len(names) |-> to_spec_map[names[i]].structure]),
                               1)
                named == Tup([i \in 1..Len(names) |-> <<names[i], v.spec[i]>>])
            IN IF ~v.ok THEN v
               ELSE IF structure.k = "Record" THEN Made(Spec_Record(named), v.conv)
               ELSE Made(Spec_Enum(named), v.conv)
      [] structure.k \in {"Tuple", "Union"} ->
            LET compiled_specs == IF structure.k = "Tuple" THEN structure.fields
                                  ELSE structure.variants
                v == MakeSpecs(heap, context, names_converted,
                               Tup([i \in 1..Len(compiled_specs) |->
                                        compiled_specs[i].structure]), 1)
            IN IF ~v.ok THEN v
               ELSE IF structure.k = "Tuple" THEN Made(Spec_Tuple(v.spec), v.conv)
               ELSE Made(Spec_Union(v.spec), v.conv)
      [] OTHER -> Made(structure, names_converted)

make_spec(heap, context, structure) == make_spec_internal(heap, context, {}, structure)

\* fingerprint.rs: the digest, represented by the bytes that are hashed
SpecFingerprint_new(heap, named_schema, structure) ==
    LET s == make_spec(heap, named_schema, structure)
    IN IF s.ok THEN [ok |-> TRUE, v |-> to_longform_bytes(s.spec)] ELSE MadePanic

RECURSIVE push_down_resolved(_, _)
\* cs.push_down_resolved(&name, &cs): the Arcs kept for name below cs become
\* the resolved one; Name leaves are not entered
push_down_resolved(cs, name) ==
    LET st == cs.structure
        down(c) == push_down_resolved(c, name)
    IN [cs EXCEPT
          !.named_schema =
              IF name \in DOMAIN @ THEN Fn([@ EXCEPT ![name] = "resolved"]) ELSE @,
          !.structure =
              CASE st.k = "Map" ->
                      [st EXCEPT !.key_spec = down(@), !.value_spec = down(@)]
                [] st.k = "List" -> [st EXCEPT !.value_spec = down(@)]
                [] st.k = "Optional" -> [st EXCEPT !.spec = down(@)]
                [] st.k = "Record" ->
                      [st EXCEPT !.field_to_spec = Fn([f \in DOMAIN @ |-> down(@[f])])]
                [] st.k = "Enum" ->
                      [st EXCEPT !.variant_to_spec = Fn([f \in DOMAIN @ |-> down(@[f])])]
                [] st.k = "Tuple" ->
                      [st EXCEPT !.fields = Tup([i \in 1..Len(@) |-> down(@[i])])]
                [] st.k = "Union" ->
                      [st EXCEPT !.variants = Tup([i \in 1..Len(@) |-> down(@[i])])]
                [] OTHER -> st]

\* a DecimalFmt::new that wants scale < precision
DecimalFmt_strict(precision, scale) ==
    IF LeLess(scale, precision, 8)
    THEN [ok |-> TRUE, v |-> [precision |-> precision, scale |-> scale]]
    ELSE [ok |-> FALSE]

\* DecimalFmt::new
DecimalFmt_new(precision, scale) ==
    IF U64Leq(scale, precision)
    THEN [ok |-> TRUE, v |-> [precision |-> precision, scale |-> scale]]
    ELSE [ok |-> FALSE]

----------------------------------------------------------------------------
(* compiled_spec.rs: the compiler.  The mutable arguments of the compile   *)
(* functions are one record m: ctx (context), non (non_optional_names),    *)
(* used (names_used), and two history fields that no code reads: path, the *)
(* nodes from the root to the one being compiled, and log, the Name and    *)
(* Ref nodes entered and the sums checked so far.  A call returns Ok(v),   *)
(* Err(err), Panic (an unwrap of None) or Diverge (a loop that never       *)
(* ends), and m as the call left it.                                       *)

COk(v, m) == [k |-> "Ok", v |-> v, m |-> m]
CErr(e, m) == [k |-> "Err", err |-> e, m |-> m]
CPanic(m) == [k |-> "Panic", m |-> m]
CDiverge(m) == [k |-> "Diverge", m |-> m]

IsInf(r) == r.k = "Err" /\ r.err.k = "InfinitelyRecursiveTypes"

\* history: the node of a Spec on the path
Node(s) == [k |-> s.k, name |-> IF s.k \in {"Name", "Ref"} THEN s.name ELSE <<>>]

\* history: the Name node s is entered
Entered(m, s) ==
    [m EXCEPT !.log = Append(@, [ev |-> "Name", name |-> s.name, path |-> m.path])]

\* history: the Ref node s, reached on path, was compiled with result r
Referred(r, s, path) ==
    [r EXCEPT !.m.log = Append(@, [ev |-> "Ref", name |-> s.name, path |-> path,
                                   res |-> IF r.k = "Ok" THEN "Ok" ELSE r.err.k])]

\* history: compile_variants_with_loop_checking returns r for n variants, of
\* which variant i was compiled attempts[i] times (the last one with success
\* when done[i])
Checked(r, n, attempts, done) ==
    [r EXCEPT !.m.log = Append(@, [ev |-> "Sum", path |-> r.m.path, n |-> n,
                                   attempts |-> attempts, done |-> done, k |-> r.k,
                                   err |-> IF r.k = "Err" THEN r.err ELSE None])]

RECURSIVE compile_spec_internal(_, _), compile_structure_internal(_, _),
          CompileName(_, _), CompileFields(_, _, _, _, _), CompileTupleFields(_, _, _, _),
          VariantLoop(_, _, _, _, _), CompileVariants(_, _, _, _, _, _, _, _),
          CompileVariantsLast(_, _, _, _, _, _, _, _), box_compile(_, _)

\* a Ref arm that takes an unbound name for Void
CompileRefUnbound(s, m) ==
    IF s.name \in m.non THEN CErr(InfinitelyRecursiveTypes({s.name}), m)
    ELSE IF s.name \in DOMAIN m.ctx
    THEN COk(Structure_Name(s.name), [m EXCEPT !.used = @ \cup {s.name}])
    ELSE COk(Spec_Void, m)

\* a Ref arm that does not record the use of the name
CompileRefUnrecorded(s, m) ==
    IF s.name \in m.non THEN CErr(InfinitelyRecursiveTypes({s.name}), m)
    ELSE IF s.name \in DOMAIN m.ctx THEN COk(Structure_Name(s.name), m)
    ELSE CErr(UndefinedName(s.name), m)

\* Spec::Ref { name }
CompileRef(s, m) ==
    IF s.name \in m.non THEN CErr(InfinitelyRecursiveTypes({s.name}), m)
    ELSE IF s.name \in DOMAIN m.ctx
    THEN COk(Structure_Name(s.name), [m EXCEPT !.used = @ \cup {s.name}])
    ELSE CErr(UndefinedName(s.name), m)

\* the Name arm after the body was compiled to cs
BindName(name, cs, m) ==
    COk(Structure_Name(name),
        [m EXCEPT !.ctx = (name :> Resolved(push_down_resolved(cs, name))) @@ @,
                  !.non = @ \ {name},
                  !.used = @ \cup {name}])

\* a Name arm that binds a name again
CompileNameRebind(s, m) ==
    LET r == compile_spec_internal(
                 s.spec, [m EXCEPT !.ctx = (s.name :> Placeholder) @@ @,
                                   !.non = @ \cup {s.name}])
    IN IF r.k # "Ok" THEN r ELSE BindName(s.name, r.v, r.m)

\* Spec::Name { name, spec }
CompileName(s, m) ==
    IF s.name \in DOMAIN m.ctx THEN CErr(DuplicateName(s.name), m)
    ELSE LET r == compile_spec_internal(
                      s.spec, [m EXCEPT !.ctx = (s.name :> Placeholder) @@ @,
                                        !.non = @ \cup {s.name}])
         IN IF r.k # "Ok" THEN r ELSE BindName(s.name, r.v, r.m)

\* for (field_name, field_spec) in fields { field_to_spec.insert(..) }, from field i
CompileFields(fields, i, field_to_spec, duplicate_name_track, m) ==
    IF i > Len(fields)
    THEN COk([field_to_spec |-> field_to_spec,
              duplicate_name_track |-> duplicate_name_track], m)
    ELSE LET r == compile_spec_internal(fields[i][2], m)
         IN IF r.k # "Ok" THEN r
            ELSE CompileFields(
                    fields, i + 1, (fields[i][1] :> r.v) @@ field_to_spec,
                    IF fields[i][1] \in DOMAIN field_to_spec
                    THEN duplicate_name_track \cup {fields[i][1]}
                    ELSE duplicate_name_track,
                    r.m)

\* the names of the fields or variants, last first
NamesReversed(fields) == Tup([i \in 1..Len(fields) |-> fields[Len(fields) + 1 - i][1]])

\* the names of the fields or variants, in order
NamesOf(fields) == Tup([i \in 1..Len(fields) |-> fields[i][1]])

\* fields.iter().enumerate().map(|(index, (name, _))| (name, index)).collect()
FieldToIndex(fields) ==
    Fn([n \in {fields[i][1] : i \in 1..Len(fields)} |->
          (CHOOSE i \in 1..Len(fields) :
              /\ fields[i][1] = n
              /\ \A j \in 1..Len(fields) : fields[j][1] = n => j <= i) - 1])

\* a Record arm that keeps the last of the fields of one name
CompileRecordLax(s, m) ==
    LET r == CompileFields(s.fields, 1, <<>>, {}, m)
    IN IF r.k # "Ok" THEN r
       ELSE COk(Structure_Record(NamesOf(s.fields), r.v.field_to_spec,
                                 FieldToIndex(s.fields)), r.m)

\* Spec::Record(fields)
CompileRecord(s, m) ==
    LET r == CompileFields(s.fields, 1, <<>>, {}, m)
    IN IF r.k # "Ok" THEN r
       ELSE IF r.v.duplicate_name_track = {}
       THEN COk(Structure_Record(NamesOf(s.fields), r.v.field_to_spec,
                                 FieldToIndex(s.fields)), r.m)
       ELSE CErr(DuplicateRecordFieldNames(r.v.duplicate_name_track), r.m)

\* what a callee leaves of a non_optional_names set it was given a copy of
KeepNon(r, m) == [r EXCEPT !.m.non = m.non]

\* for field_spec in fields { compiled_fields.push(..) }, from field i; each
\* field is given non_optional_names.clone()
CompileTupleFields(fields, i, compiled_fields, m) ==
    IF i > Len(fields) THEN COk(Structure_Tuple(compiled_fields), m)
    ELSE LET r == KeepNon(compile_spec_internal(fields[i], m), m)
         IN IF r.k # "Ok" THEN r
            ELSE CompileTupleFields(fields, i + 1, Append(compiled_fields, r.v), r.m)

\* a box_compile that hands down the caller's non_optional_names
UnboxedCompile(s, m) == compile_spec_internal(s, m)

\* box_compile: the child is compiled with &mut HashSet::new()
box_compile(s, m) == KeepNon(compile_spec_internal(s, [m EXCEPT !.non = {}]), m)

\* the catch of InfinitelyRecursiveTypes(offending_names): does the retry
\* start from a state that differs from the one of the failed attempt
Progress(r, m) == r.m.ctx # m.ctx \/ r.m.non \ r.err.names # m.non

\* let cs = loop { match compile_spec_internal(variant_spec.clone(), ..) }
\* m.non is non_offending_names_for_variant; errored: the variant was put
\* into variants_with_non_optional_name_errors
VariantLoop(variant_spec, m, offending_names_for_variant, errored, attempts) ==
    LET r == compile_spec_internal(variant_spec, m)
        out == [res |-> r, offending |-> offending_names_for_variant,
                errored |-> errored, attempts |-> attempts + 1]
    IN IF IsInf(r)
       THEN IF Progress(r, m)
            THEN VariantLoop(variant_spec, [r.m EXCEPT !.non = @ \ r.err.names],
                             offending_names_for_variant \cup r.err.names, TRUE,
                             attempts + 1)
            ELSE [out EXCEPT !.res = CDiverge(r.m)]
       ELSE out

\* a test that complains when one variant depended on recursion
SomeVariantErrored(variants_with_non_optional_name_errors, num_variants) ==
    variants_with_non_optional_name_errors # {}

\* the test at the end of compile_variants_with_loop_checking
AllVariantsErrored(variants_with_non_optional_name_errors, num_variants) ==
    Cardinality(variants_with_non_optional_name_errors) = num_variants

\* a loop over the variants that reports the names of its last variant only
CompileVariantsLast(variants, i, variant_to_spec, errors, offending, attempts, done, m) ==
    IF i > Len(variants)
    THEN Checked(IF AllVariantsErrored(errors, Len(variants))
                 THEN CErr(InfinitelyRecursiveTypes(offending), m)
                 ELSE COk(variant_to_spec, m),
                 Len(variants), attempts, done)
    ELSE LET l == VariantLoop(variants[i][2], m, {}, FALSE, 0)
             r == KeepNon(l.res, m)
         IN IF r.k # "Ok"
            THEN Checked(r, Len(variants), Append(attempts, l.attempts), Append(done, FALSE))
            ELSE CompileVariantsLast(
                    variants, i + 1, (variants[i][1] :> r.v) @@ variant_to_spec,
                    IF l.errored THEN errors \cup {variants[i][1]} ELSE errors,
                    l.offending,
                    Append(attempts, l.attempts), Append(done, TRUE), r.m)

\* for (variant_name, variant_spec) in variants { .. }, from variant i, and
\* the test after it
CompileVariants(variants, i, variant_to_spec, errors, offending, attempts, done, m) ==
    IF i > Len(variants)
    THEN Checked(IF AllVariantsErrored(errors, Len(variants))
                 THEN CErr(InfinitelyRecursiveTypes(offending), m)
                 ELSE COk(variant_to_spec, m),
                 Len(variants), attempts, done)
    ELSE LET l == VariantLoop(variants[i][2], m, {}, FALSE, 0)
             r == KeepNon(l.res, m)
         IN IF r.k # "Ok"
            THEN Checked(r, Len(variants), Append(attempts, l.attempts), Append(done, FALSE))
            ELSE CompileVariants(
                    variants, i + 1, (variants[i][1] :> r.v) @@ variant_to_spec,
                    IF l.errored THEN errors \cup {variants[i][1]} ELSE errors,
                    offending \cup l.offending,
                    Append(attempts, l.attempts), Append(done, TRUE), r.m)

compile_variants_with_loop_checking(variants, m) ==
    CompileVariants(variants, 1, <<>>, {}, {}, <<>>, <<>>, m)

\* variant_names.iter().filter(|&n| !all_names.remove(n)).collect()
DuplicateNames(variant_names) ==
    {variant_names[i] : i \in {j \in 1..Len(variant_names) :
                                  \E h \in 1..(j - 1) : variant_names[h] = variant_names[j]}}

\* Spec::Enum(variants)
CompileEnum(s, m) ==
    LET variant_names == NamesOf(s.variants)
        duplicate_names == DuplicateNames(variant_names)
    IN IF duplicate_names # {} THEN CErr(DuplicateEnumVariantNames(duplicate_names), m)
       ELSE LET r == compile_variants_with_loop_checking(s.variants, m)
            IN IF r.k # "Ok" THEN r
               ELSE COk(Structure_Enum(variant_names, r.v), r.m)

\* a filter that compares a variant with the one just before it only
DuplicateVariantsAdjacent(compiled_variants) ==
    LET dup == {j \in 2..Len(compiled_variants) :
                    compiled_variants[j - 1].fingerprint = compiled_variants[j].fingerprint}
        RECURSIVE pick(_)
        pick(j) == IF j > Len(compiled_variants) THEN <<>>
                   ELSE (IF j \in dup THEN <<compiled_variants[j]>> ELSE <<>>) \o pick(j + 1)
    IN pick(1)

\* compiled_variants.iter().filter(|&v| !variant_fingerprints.insert(&v.fingerprint))
DuplicateVariants(compiled_variants) ==
    LET dup == {j \in 1..Len(compiled_variants) :
                    \E h \in 1..(j - 1) :
                        compiled_variants[h].fingerprint = compiled_variants[j].fingerprint}
        RECURSIVE pick(_)
        pick(j) == IF j > Len(compiled_variants) THEN <<>>
                   ELSE (IF j \in dup THEN <<compiled_variants[j]>> ELSE <<>>) \o pick(j + 1)
    IN pick(1)

\* Spec::Union(variants); the variants are keyed by their index
CompileUnion(s, m) ==
    LET len == Len(s.variants)
        variants == Tup([i \in 1..len |-> <<i - 1, s.variants[i]>>])
        r == compile_variants_with_loop_checking(variants, m)
    IN IF r.k # "Ok" THEN r
       ELSE LET compiled_variants == Tup([i \in 1..len |-> r.v[i - 1]])
                duplicate_variants == DuplicateVariants(compiled_variants)
            IN IF duplicate_variants = <<>>
               THEN COk(Structure_Union(compiled_variants), r.m)
               ELSE CErr(DuplicateUnionVariantSpecs(duplicate_variants), r.m)

\* Spec::Decimal { precision, scale }
CompileDecimal(s, m) ==
    LET fmt == DecimalFmt_new(s.precision, s.scale)
    IN IF fmt.ok THEN COk(Structure_Decimal(fmt.v), m) ELSE CErr(IllegalDecimalFmt, m)

\* Spec::Map { size, key_spec, value_spec }
CompileMap(s, m) ==
    LET key == box_compile(s.key_spec, m)
    IN IF key.k # "Ok" THEN key
       ELSE LET val == box_compile(s.value_spec, key.m)
            IN IF val.k # "Ok" THEN val
               ELSE COk(Structure_Map(s.size, key.v, val.v), val.m)

compile_structure_internal(s, m) ==
    CASE s.k = "Decimal" -> CompileDecimal(s, m)
      [] s.k = "Map" -> CompileMap(s, m)
      [] s.k = "List" ->
            LET r == box_compile(s.value_spec, m)
            IN IF r.k # "Ok" THEN r ELSE COk(Structure_List(s.size, r.v), r.m)
      [] s.k = "Optional" ->
            LET r == box_compile(s.spec, m)
            IN IF r.k # "Ok" THEN r ELSE COk(Structure_Optional(r.v), r.m)
      [] s.k = "Name" -> CompileName(s, Entered(m, s))
      [] s.k = "Ref" -> Referred(CompileRef(s, m), s, m.path)
      [] s.k = "Record" -> CompileRecord(s, m)
      [] s.k = "Tuple" -> CompileTupleFields(s.fields, 1, <<>>, m)
      [] s.k = "Enum" -> CompileEnum(s, m)
      [] s.k = "Union" -> CompileUnion(s, m)
      [] OTHER -> COk(s, m)

\* the end of compile_spec_internal: the names used below become the
\* named_schema, and the fingerprint is taken
Finish(structure, m, names_used) ==
    LET named_schema == Fn([n \in m.used |-> Pointer(m.ctx, n)])
        fingerprint == SpecFingerprint_new(m.ctx, named_schema, structure)
        m1 == [m EXCEPT !.used = names_used \cup m.used]
    IN IF fingerprint.ok
       THEN COk(CompiledSpec(fingerprint.v, named_schema, structure), m1)
       ELSE CPanic(m1)

compile_spec_internal(s, m) ==
    LET r == compile_structure_internal(
                 s, [m EXCEPT !.used = {}, !.path = Append(@, Node(s))])
        back == [r EXCEPT !.m.path = m.path]
    IN IF r.k # "Ok" THEN [back EXCEPT !.m.used = m.used]
       ELSE Finish(r.v, back.m, m.used)

\* CompiledSpec::compile: an empty context and empty name sets
compile(s) ==
    compile_spec_internal(
        s, [ctx |-> <<>>, non |-> {}, used |-> {}, path |-> <<>>, log |-> <<>>])

\* CompiledSpec::to_spec, of a compiled schema whose Arcs live in heap
to_spec(heap, cs) ==
    LET s == make_spec(heap, cs.named_schema, cs.structure)
    IN IF s.ok THEN s.spec ELSE [k |-> "Panic"]

----------------------------------------------------------------------------
(* serde/mod.rs: values.  A GluinoValue is a record of its kind k and its  *)
(* payload v: an integer, a boolean, the bits of a float (little-endian    *)
(* bytes), a tuple of bytes, a tuple of values (Optional: of none or one;  *)
(* Map: of <<key, value>> pairs), and for a sum the variant id.            *)

GluinoValue(kind, v) == [k |-> kind, v |-> v]
Value_Void == [k |-> "Void"]
\* Enum(variant_id, value), Union(variant_id, value)
Value_Sum(kind, variant_id, v) == [k |-> kind, id |-> variant_id, v |-> v]
\* BigInt(n, bytes), BigUint(n, bytes), BinaryFloatingPoint(fmt, bytes)
Value_Carried(kind, tag, bytes) == [k |-> kind, tag |-> tag, v |-> bytes]

\* f32::is_nan and f64::is_nan on the bits
IsNaN(bits) ==
    IF Len(bits) = 4
    THEN /\ bits[4] % 128 = 127 /\ bits[3] >= 128
         /\ (bits[3] % 128 # 0 \/ bits[2] # 0 \/ bits[1] # 0)
    ELSE /\ bits[8] % 128 = 127 /\ bits[7] \div 16 = 15
         /\ (bits[7] % 16 # 0 \/ \E i \in 1..6 : bits[i] # 0)

\* +0.0 or -0.0
IsZero(bits) ==
    /\ bits[Len(bits)] % 128 = 0
    /\ \A i \in 1..(Len(bits) - 1) : bits[i] = 0

\* PartialEq for F32 and F64: NaN equals NaN, the rest as the floats compare
F_eq(a, b) == IF IsNaN(a) THEN IsNaN(b) ELSE ~IsNaN(b) /\ (a = b \/ (IsZero(a) /\ IsZero(b)))

RECURSIVE ValueEq(_, _)
\* the derived PartialEq of GluinoValue
ValueEq(a, b) ==
    /\ a.k = b.k
    /\ CASE a.k = "Void" -> TRUE
         [] a.k \in {"Float", "Double"} -> F_eq(a.v, b.v)
         [] a.k \in {"Optional", "List", "Record", "Tuple"} ->
                /\ Len(a.v) = Len(b.v)
                /\ \A i \in 1..Len(a.v) : ValueEq(a.v[i], b.v[i])
         [] a.k = "Map" ->
                /\ Len(a.v) = Len(b.v)
                /\ \A i \in 1..Len(a.v) :
                       ValueEq(a.v[i][1], b.v[i][1]) /\ ValueEq(a.v[i][2], b.v[i][2])
         [] a.k \in {"Enum", "Union"} -> a.id = b.id /\ ValueEq(a.v, b.v)
         [] a.k \in {"BigInt", "BigUint", "BinaryFloatingPoint"} ->
                a.tag = b.tag /\ a.v = b.v
         [] OTHER -> a.v = b.v

\* GluinoSerializationError
IncorrectDataSize(expected_size, actual_size, size_value_kind) ==
    [k |-> "IncorrectDataSize", expected_size |-> expected_size,
     actual_size |-> actual_size, size_value_kind |-> size_value_kind]
\* an InvalidVariantId that reports the number of variants
InvalidVariantIdCount(variant_id, max_variant_id) ==
    [k |-> "InvalidVariantId", variant_id |-> variant_id,
     max_variant_id |-> max_variant_id + 1]

InvalidVariantId(variant_id, max_variant_id) ==
    [k |-> "InvalidVariantId", variant_id |-> variant_id,
     max_variant_id |-> max_variant_id]
ValueKindMismatch(expected_value_kind, actual_value_kind) ==
    [k |-> "ValueKindMismatch", expected_value_kind |-> expected_value_kind,
     actual_value_kind |-> actual_value_kind]
ProductKindValueKindMismatch(actual_value_kind) ==
    [k |-> "ProductKindValueKindMismatch", actual_value_kind |-> actual_value_kind]
IncorrectNumberOfFields(correct_number_of_fields, actual_number_of_fields) ==
    [k |-> "IncorrectNumberOfFields",
     correct_number_of_fields |-> correct_number_of_fields,
     actual_number_of_fields |-> actual_number_of_fields]
SumKindValueKindMismatch(actual_value_kind) ==
    [k |-> "SumKindValueKindMismatch", actual_value_kind |-> actual_value_kind]
InncorrectNumberOfIntegerBytes(expect_bytes, actual_bytes) ==
    [k |-> "InncorrectNumberOfIntegerBytes", expect_bytes |-> expect_bytes,
     actual_bytes |-> actual_bytes]
IncorrectNumberOfFloatingPointBytes(expext_bytes, actual_bytes) ==
    [k |-> "IncorrectNumberOfFloatingPointBytes", expext_bytes |-> expext_bytes,
     actual_bytes |-> actual_bytes]

\* the result of a serialize call and the bytes it appended to the writer:
\* Ok(n), Err(err), or a panic
SerOk(n, out) == [res |-> "Ok", n |-> n, out |-> out]
SerErr(e, out) == [res |-> "Err", err |-> e, out |-> out]
SerPanic(out) == [res |-> "Panic", out |-> out]

\* combine(a, b), used on the results of two serialize calls made one
\* after the other
SerCombine(a, b) ==
    IF a.res = "Ok" /\ b.res = "Ok" THEN SerOk(a.n + b.n, a.out \o b.out)
    ELSE IF a.res = "Err" THEN SerErr(a.err, a.out \o b.out)
    ELSE SerErr(b.err, a.out \o b.out)

----------------------------------------------------------------------------
(* serde/encode.rs: Encodable, for the native types                        *)

NativeIntegers == {"u8", "u16", "u32", "u64", "u128", "i8", "i16", "i32", "i64", "i128"}
NativeSigned == {"i8", "i16", "i32", "i64", "i128"}

\* the GluinoValue kind of a native type
NativeKind ==
    [bool |-> "Bool", u8 |-> "Uint8", u16 |-> "Uint16", u32 |-> "Uint32",
     u64 |-> "Uint64", u128 |-> "Uint128", i8 |-> "Int8", i16 |-> "Int16",
     i32 |-> "Int32", i64 |-> "Int64", i128 |-> "Int128",
     F32 |-> "Float", F64 |-> "Double"]

\* <$type>::BITS >> 3, and the buffers of bool, F32 and F64
NativeBytes ==
    [bool |-> 1, u8 |-> 1, u16 |-> 2, u32 |-> 4, u64 |-> 8, u128 |-> 16,
     i8 |-> 1, i16 |-> 2, i32 |-> 4, i64 |-> 8, i128 |-> 16, F32 |-> 4, F64 |-> 8]

RECURSIVE to_le_bytes(_, _)
\* v.to_le_bytes() of an integer w bytes wide (two's complement)
to_le_bytes(v, w) ==
    IF w = 0 THEN <<>> ELSE <<v % 256>> \o to_le_bytes(v \div 256, w - 1)

\* <$type>::from_le_bytes(buff), of a buffer whose number is small
from_le_bytes(buff, signed) ==
    IF signed /\ buff[Len(buff)] >= 128
    THEN 0 - ToNat(TrimLe(Tup([i \in 1..Len(buff) |-> 255 - buff[i]]))) - 1
    ELSE ToNat(TrimLe(buff))

\* E::extract(value)
Encodable_extract(ty, value) ==
    IF value.k = NativeKind[ty] THEN [ok |-> TRUE, v |-> value.v]
    ELSE [ok |-> FALSE, err |-> ValueKindMismatch(NativeKind[ty], value.k)]

\* e.encode(writer): the bytes written
Encodable_encode(ty, e) ==
    CASE ty = "bool" -> IF e THEN <<1>> ELSE <<0>>
      [] ty \in NativeIntegers -> to_le_bytes(e, NativeBytes[ty])
      [] OTHER -> e

\* the result of a read: Ok(value) and the input left, or the io::Error
DeOk(v, rest) == [res |-> "Ok", v |-> v, rest |-> rest]
DeErr(e) == [res |-> "Err", err |-> e]

\* E::decode(reader)
Encodable_decode(ty, reader) ==
    IF Len(reader) < NativeBytes[ty] THEN DeErr("UnexpectedEof")
    ELSE LET buff == SubSeq(reader, 1, NativeBytes[ty])
             rest == SubSeq(reader, NativeBytes[ty] + 1, Len(reader))
         IN CASE ty = "bool" -> DeOk(GluinoValue("Bool", buff[1] > 0), rest)
              [] ty \in NativeIntegers ->
                    DeOk(GluinoValue(NativeKind[ty],
                                     from_le_bytes(buff, ty \in NativeSigned)), rest)
              [] OTHER -> DeOk(GluinoValue(NativeKind[ty], buff), rest)

----------------------------------------------------------------------------
(* serde/ser_impls.rs: the encoders.  An encoder is a record of its type   *)
(* ser and its fields; an Rc<RefCell<Box<dyn GluinoValueSer>>> is the      *)
(* record Shared(name) and the cell it points to is cells[name].  usize is *)
(* 64 bits wide.  A shift by 64 bits or more, and 0 - 1 on a usize, panic  *)
(* in a build with overflow checks and wrap in a build without them:       *)
(* checks tells which build runs.                                          *)

VoidGluinoValueSer == [ser |-> "VoidGluinoValueSer"]
NativeSingleSer(ty) == [ser |-> "NativeSingleSer", ty |-> ty]
BigUintValueSer(n) == [ser |-> "BigUintValueSer", n |-> n]
BigIntValueSer(n) == [ser |-> "BigIntValueSer", n |-> n]
BinaryFloatingPointValueSer(fmt) == [ser |-> "BinaryFloatingPointValueSer", fmt |-> fmt]
DecimalFloatingPointValueSer(fmt) == [ser |-> "DecimalFloatingPointValueSer", fmt |-> fmt]
DecimalSer == [ser |-> "DecimalSer"]
ByteValueSer(spec_size) == [ser |-> "ByteValueSer", spec_size |-> spec_size]
Utf8Ser(spec_size) == [ser |-> "Utf8Ser", spec_size |-> spec_size]
NonUtf8Ser(spec_size) == [ser |-> "NonUtf8Ser", spec_size |-> spec_size]
MapSer(spec_size, key_ser, value_ser) ==
    [ser |-> "MapSer", spec_size |-> spec_size, key_ser |-> key_ser,
     value_ser |-> value_ser]
ListSer(spec_size, value_ser) ==
    [ser |-> "ListSer", spec_size |-> spec_size, value_ser |-> value_ser]
OptionalValueSer(inner_ser) == [ser |-> "OptionalValueSer", inner_ser |-> inner_ser]
\* a ProductValueSer whose encoders are held last field first
ProductValueSerReversed(field_sers) ==
    [ser |-> "ProductValueSer",
     field_sers |-> Tup([i \in 1..Len(field_sers) |-> field_sers[Len(field_sers) + 1 - i]])]

ProductValueSer(field_sers) == [ser |-> "ProductValueSer", field_sers |-> field_sers]
\* varient_sers: the encoder of variant i is entry i + 1
SumValueSer(varient_sers) == [ser |-> "SumValueSer", varient_sers |-> varient_sers]
Shared(name) == [ser |-> "Shared", name |-> name]

\* Size::valiate_size
valiate_size(size, data_size) ==
    CASE size.k = "Variable" -> TRUE
      [] size.k = "Fixed" -> size.n = U64(data_size)
      [] size.k = "Range" ->
            U64Leq(size.start, U64(data_size)) /\ U64Leq(U64(data_size), size.end)

\* a need_write_size that asks for the length prefix of every size
need_write_size_always(size) == TRUE

\* Size::need_write_size
need_write_size(size) == size.k \in {"Variable", "Range"}

\* x >> s on a usize that is a small number: the value, or the overflow
ShrUsize(x, s, checks) ==
    IF s >= 64 /\ checks THEN [ok |-> FALSE]
    ELSE [ok |-> TRUE, v |-> IF s % 64 >= 31 THEN 0 ELSE x \div (2 ^ (s % 64))]

\* 1 << s on a usize: the value as little-endian bytes, or the overflow
ShlOne(s, checks) ==
    IF s >= 64 /\ checks THEN [ok |-> FALSE]
    ELSE [ok |-> TRUE,
          v |-> Tup([i \in 1..8 |-> IF i = ((s % 64) \div 8) + 1 THEN 2 ^ (s % 8) ELSE 0])]

\* (target_fmt.significand_bits() + target_fmt.exponent_bits()) >> 3
FloatingPointBytes(fmt) ==
    LET significand_bits ==
            [Half |-> 11, Single |-> 24, Double |-> 53, Quadruple |-> 113, Octuple |-> 237]
        exponent_bits ==
            [Half |-> 5, Single |-> 8, Double |-> 11, Quadruple |-> 15, Octuple |-> 19]
    IN (significand_bits[fmt] + exponent_bits[fmt]) \div 8

\* BigIntValueSer (shift == self.n) and BigUintValueSer (shift == the n of
\* the value): the length test and the write
SerializeBig(kind, self_n, shift, value, checks) ==
    IF value.k # kind THEN SerErr(ValueKindMismatch(kind, value.k), <<>>)
    ELSE LET shifted == ShrUsize(Len(value.v), shift, checks)
             expect == ShlOne(self_n, checks)
         IN IF ~shifted.ok THEN SerPanic(<<>>)
            ELSE IF shifted.v = 1 THEN SerOk(Len(value.v), value.v)
            ELSE IF ~expect.ok THEN SerPanic(<<>>)
            ELSE SerErr(InncorrectNumberOfIntegerBytes(expect.v, Len(value.v)), <<>>)

\* ByteValueSer, Utf8Ser, NonUtf8Ser: the size test, the length and the bytes
SerializeSized(kind, spec_size, value) ==
    IF value.k # kind THEN SerErr(ValueKindMismatch(kind, value.k), <<>>)
    ELSE IF valiate_size(spec_size, Len(value.v))
    THEN LET v_size == IF need_write_size(spec_size)
                       THEN variable_length_encode(U64(Len(value.v))) ELSE <<>>
         IN SerOk(Len(v_size) + Len(value.v), v_size \o value.v)
    ELSE SerErr(IncorrectDataSize(spec_size, Len(value.v), kind), <<>>)

RECURSIVE Serialize(_, _, _, _), SerializeEach(_, _, _, _, _, _)

\* values.into_iter().map(|v| ser.serialize(v, writer)).fold(written, combine)
\* from entry i: every entry is serialized, sers[i] serializing values[i]
SerializeEach(sers, cells, values, i, written, checks) ==
    IF i > Len(values) THEN written
    ELSE LET r == Serialize(sers[i], cells, values[i], checks)
         IN IF r.res = "Panic" THEN SerPanic(written.out \o r.out)
            ELSE SerializeEach(sers, cells, values, i + 1, SerCombine(written, r), checks)

\* ser.serialize(value, writer)
Serialize(ser, cells, value, checks) ==
    CASE ser.ser = "VoidGluinoValueSer" ->
            IF value.k = "Void" THEN SerOk(0, <<>>)
            ELSE SerErr(ValueKindMismatch("Void", value.k), <<>>)
      [] ser.ser = "NativeSingleSer" ->
            LET e == Encodable_extract(ser.ty, value)
            IN IF ~e.ok THEN SerErr(e.err, <<>>)
               ELSE LET bytes == Encodable_encode(ser.ty, e.v)
                    IN SerOk(Len(bytes), bytes)
      [] ser.ser = "BigIntValueSer" -> SerializeBig("BigInt", ser.n, ser.n, value, checks)
      [] ser.ser = "BigUintValueSer" ->
            SerializeBig("BigUint", ser.n,
                         IF value.k = "BigUint" THEN value.tag ELSE 0, value, checks)
      [] ser.ser = "BinaryFloatingPointValueSer" ->
            IF value.k # "BinaryFloatingPoint"
            THEN SerErr(ValueKindMismatch("BinaryFloatingPoint", value.k), <<>>)
            ELSE IF ser.fmt = value.tag /\ FloatingPointBytes(value.tag) = Len(value.v)
            THEN SerOk(Len(value.v), value.v)
            ELSE SerErr(IncorrectNumberOfFloatingPointBytes(
                            FloatingPointBytes(value.tag), Len(value.v)), <<>>)
      [] ser.ser = "DecimalSer" ->
            IF value.k # "Decimal" THEN SerErr(ValueKindMismatch("Decimal", value.k), <<>>)
            ELSE LET v_size == variable_length_encode(U64(Len(value.v)))
                 IN SerOk(Len(v_size) + Len(value.v), v_size \o value.v)
      [] ser.ser = "ByteValueSer" -> SerializeSized("Bytes", ser.spec_size, value)
      [] ser.ser = "Utf8Ser" -> SerializeSized("String", ser.spec_size, value)
      [] ser.ser = "NonUtf8Ser" -> SerializeSized("NonUtf8String", ser.spec_size, value)
      [] ser.ser \in {"MapSer", "ListSer"} ->
            LET kind == IF ser.ser = "MapSer" THEN "Map" ELSE "List"
            IN IF value.k # kind THEN SerErr(ValueKindMismatch(kind, value.k), <<>>)
               ELSE IF ~valiate_size(ser.spec_size, Len(value.v))
               THEN SerErr(IncorrectDataSize(ser.spec_size, Len(value.v), kind), <<>>)
               ELSE LET prefix == IF need_write_size(ser.spec_size)
                                  THEN variable_length_encode(U64(Len(value.v)))
                                  ELSE <<>>
                        written == SerOk(Len(prefix), prefix)
                    IN IF kind = "List"
                       THEN SerializeEach(
                                Tup([i \in 1..Len(value.v) |-> ser.value_ser]),
                                cells, value.v, 1, written, checks)
                       ELSE SerializeEach(
                                Tup([i \in 1..(2 * Len(value.v)) |->
                                        IF i % 2 = 1 THEN ser.key_ser ELSE ser.value_ser]),
                                cells,
                                Tup([i \in 1..(2 * Len(value.v)) |->
                                        value.v[(i + 1) \div 2][2 - (i % 2)]]),
                                1, written, checks)
      [] ser.ser = "OptionalValueSer" ->
            IF value.k # "Optional"
            THEN SerErr(ValueKindMismatch("Optional", value.k), <<>>)
            ELSE IF Len(value.v) = 0 THEN SerOk(1, <<0>>)
            ELSE LET r == Serialize(ser.inner_ser, cells, value.v[1], checks)
                 IN IF r.res = "Ok" THEN SerOk(1 + r.n, <<1>> \o r.out)
                    ELSE [r EXCEPT !.out = <<1>> \o @]
      [] ser.ser = "ProductValueSer" ->
            IF value.k \notin {"Record", "Tuple"}
            THEN SerErr(ProductKindValueKindMismatch(value.k), <<>>)
            ELSE IF Len(value.v) # Len(ser.field_sers)
            THEN SerErr(IncorrectNumberOfFields(Len(ser.field_sers), Len(value.v)), <<>>)
            ELSE SerializeEach(ser.field_sers, cells, value.v, 1, SerOk(0, <<>>), checks)
      [] ser.ser = "SumValueSer" ->
            IF value.k \notin {"Enum", "Union"}
            THEN SerErr(SumKindValueKindMismatch(value.k), <<>>)
            ELSE IF value.id < Len(ser.varient_sers)
            THEN LET id == variable_length_encode(U64(value.id))
                     r == Serialize(ser.varient_sers[value.id + 1], cells, value.v, checks)
                 IN IF r.res = "Ok" THEN SerOk(Len(id) + r.n, id \o r.out)
                    ELSE [r EXCEPT !.out = id \o @]
            ELSE IF Len(ser.varient_sers) = 0
            THEN IF checks THEN SerPanic(<<>>)
                 ELSE SerErr(InvalidVariantId(value.id, "usize::MAX"), <<>>)
            ELSE SerErr(InvalidVariantId(value.id, Len(ser.varient_sers) - 1), <<>>)
      [] ser.ser = "Shared" -> Serialize(cells[ser.name], cells, value, checks)

----------------------------------------------------------------------------
(* serde/mod.rs: the synthesizers.  The result of the encoder synthesis is *)
(* the encoder and named_unit_sers, the cells by name, or the panic of an  *)
(* expect; cs is the spec argument and heap is the context in which the   *)
(* Arcs of a named_schema live.                                            *)
(* (The encoder of DecimalFloatingPoint is synthesized but not run here:   *)
(* its length test is minimum_byes_needed, which the sources do not hold.) *)

Synthesized(ser, named_unit_sers) == [ok |-> TRUE, ser |-> ser, cells |-> named_unit_sers]
SynthesisPanic == [ok |-> FALSE]

\* a cell that keeps the encoder it was made with
KeepCell(named_unit_sers, name, inner_ser) == named_unit_sers

\* *named_ser.borrow_mut() = inner_ser: every clone of the Rc sees inner_ser
SetCell(named_unit_sers, name, inner_ser) ==
    Fn([named_unit_sers EXCEPT ![name] = inner_ser])

RECURSIVE get_unit_serialization_function_internal(_, _, _), SynthesizeEach(_, _, _, _, _)

\* specs.iter().map(|spec| get_unit_serialization_function_internal(spec,
\* named_unit_sers)).collect(), from entry i
SynthesizeEach(heap, specs, i, sers, named_unit_sers) ==
    IF i > Len(specs) THEN Synthesized(sers, named_unit_sers)
    ELSE LET s == get_unit_serialization_function_internal(heap, specs[i], named_unit_sers)
         IN IF ~s.ok THEN s
            ELSE SynthesizeEach(heap, specs, i + 1, Append(sers, s.ser), s.cells)

get_unit_serialization_function_internal(heap, cs, named_unit_sers) ==
    LET st == cs.structure
        leaf(ser) == Synthesized(ser, named_unit_sers)
        each(specs) == SynthesizeEach(heap, specs, 1, <<>>, named_unit_sers)
    IN CASE st.k = "Void" -> leaf(VoidGluinoValueSer)
         [] st.k = "Bool" -> leaf(NativeSingleSer("bool"))
         [] st.k = "Uint" ->
               IF st.n <= 4
               THEN leaf(NativeSingleSer(<<"u8", "u16", "u32", "u64", "u128">>[st.n + 1]))
               ELSE leaf(BigUintValueSer(st.n))
         [] st.k = "Int" ->
               IF st.n <= 4
               THEN leaf(NativeSingleSer(<<"i8", "i16", "i32", "i64", "i128">>[st.n + 1]))
               ELSE leaf(BigIntValueSer(st.n))
         [] st.k = "BinaryFloatingPoint" ->
               IF st.fmt = "Single" THEN leaf(NativeSingleSer("F32"))
               ELSE IF st.fmt = "Double" THEN leaf(NativeSingleSer("F64"))
               ELSE leaf(BinaryFloatingPointValueSer(st.fmt))
         [] st.k = "DecimalFloatingPoint" -> leaf(DecimalFloatingPointValueSer(st.fmt))
         [] st.k = "Decimal" -> leaf(DecimalSer)
         [] st.k = "Bytes" -> leaf(ByteValueSer(st.size))
         [] st.k = "String" ->
               IF st.fmt = "Utf8" THEN leaf(Utf8Ser(st.size)) ELSE leaf(NonUtf8Ser(st.size))
         [] st.k = "Map" ->
               LET s == each(<<st.key_spec, st.value_spec>>)
               IN IF ~s.ok THEN s
                  ELSE Synthesized(MapSer(st.size, s.ser[1], s.ser[2]), s.cells)
         [] st.k = "List" ->
               LET s == each(<<st.value_spec>>)
               IN IF ~s.ok THEN s ELSE Synthesized(ListSer(st.size, s.ser[1]), s.cells)
         [] st.k = "Optional" ->
               LET s == each(<<st.spec>>)
               IN IF ~s.ok THEN s ELSE Synthesized(OptionalValueSer(s.ser[1]), s.cells)
         [] st.k = "Record" ->
               LET s == each(Tup([i \in 1..Len(st.fields) |-> st.field_to_spec[st.fields[i]]]))
               IN IF ~s.ok THEN s ELSE Synthesized(ProductValueSer(s.ser), s.cells)
         [] st.k = "Tuple" ->
               LET s == each(st.fields)
               IN IF ~s.ok THEN s ELSE Synthesized(ProductValueSer(s.ser), s.cells)
         [] st.k = "Enum" ->
               LET s == each(Tup([i \in 1..Len(st.variants) |->
                                     st.variant_to_spec[st.variants[i]]]))
               IN IF ~s.ok THEN s ELSE Synthesized(SumValueSer(s.ser), s.cells)
         [] st.k = "Union" ->
               LET s == each(st.variants)
               IN IF ~s.ok THEN s ELSE Synthesized(SumValueSer(s.ser), s.cells)
         [] st.k = "Name" ->
               IF st.name \in DOMAIN named_unit_sers THEN leaf(Shared(st.name))
               ELSE IF st.name \notin DOMAIN cs.named_schema THEN SynthesisPanic
               ELSE LET inner_ser ==
                            get_unit_serialization_function_internal(
                                heap, Deref(heap, cs.named_schema, st.name),
                                Fn(named_unit_sers @@ (st.name :> VoidGluinoValueSer)))
                    IN IF ~inner_ser.ok THEN inner_ser
                       ELSE Synthesized(
                                Shared(st.name),
                                SetCell(inner_ser.cells, st.name, inner_ser.ser))

get_unit_serialization_function(heap, cs) ==
    get_unit_serialization_function_internal(heap, cs, <<>>)

\* serde/de_impls.rs: the decoders
VoidGluinoValueDe == [de |-> "VoidGluinoValueDe"]
NativeSingleDe(ty) == [de |-> "NativeSingleDe", ty |-> ty]

\* the decoder, or the panic of todo!()
get_unit_deserialization_function(cs) ==
    LET st == cs.structure
        made(de) == [ok |-> TRUE, de |-> de]
    IN CASE st.k = "Void" -> made(VoidGluinoValueDe)
         [] st.k = "Bool" -> made(NativeSingleDe("bool"))
         [] st.k = "Uint" /\ st.n <= 4 ->
               made(NativeSingleDe(<<"u8", "u16", "u32", "u64", "u128">>[st.n + 1]))
         [] st.k = "Int" /\ st.n <= 4 ->
               made(NativeSingleDe(<<"i8", "i16", "i32", "i64", "i128">>[st.n + 1]))
         [] st.k = "BinaryFloatingPoint" /\ st.fmt = "Single" -> made(NativeSingleDe("F32"))
         [] st.k = "BinaryFloatingPoint" /\ st.fmt = "Double" -> made(NativeSingleDe("F64"))
         [] OTHER -> [ok |-> FALSE]

\* de.deserialize(reader)
Deserialize(de, reader) ==
    IF de.de = "VoidGluinoValueDe" THEN DeOk(Value_Void, reader)
    ELSE Encodable_decode(de.ty, reader)

----------------------------------------------------------------------------
(* Driver of the varint codec                                              *)

\* the largest bit position at which the inputs are chosen
MaxBit == 127

\* 2^k, 16 bytes wide
PowerOfTwo(k) == Tup([i \in 1..16 |-> IF i = (k \div 8) + 1 THEN 2 ^ (k % 8) ELSE 0])

\* 2^(k+1) - 1, 16 bytes wide
AllOnes(k) ==
    Tup([i \in 1..16 |->
        IF i < (k \div 8) + 1 THEN 255
        ELSE IF i = (k \div 8) + 1 THEN 2 ^ ((k % 8) + 1) - 1 ELSE 0])

\* 2^k + 1, 16 bytes wide
PowerPlusOne(k) ==
    Tup([i \in 1..16 |->
        (IF i = (k \div 8) + 1 THEN 2 ^ (k % 8) ELSE 0) + (IF i = 1 THEN 1 ELSE 0)])

\* u128 has no bit above 127
TopBit == IF MaxBit > 127 THEN 127 ELSE MaxBit

\* n bytes that are p and q in turn, 16 bytes wide
Alternating(p, q, n) ==
    Tup([i \in 1..16 |-> IF i > n THEN 0 ELSE IF i % 2 = 1 THEN p ELSE q])

VarintInputs ==
    {Tup([i \in 1..16 |-> 0])}
        \cup {PowerOfTwo(k) : k \in 0..TopBit}
        \cup {AllOnes(k) : k \in 0..TopBit}
        \cup {PowerPlusOne(k) : k \in 0..TopBit}
        \cup {Alternating(165, 60, n) : n \in 1..((TopBit + 1) \div 8)}
        \cup {Alternating(90, 195, n) : n \in 1..((TopBit + 1) \div 8)}

\* the widths of u16, u32, u64 (and usize), u128
TargetWidths == {2, 4, 8, 16}

VarintInit ==
    /\ mode = "varint"
    /\ pc = "start"
    /\ z \in VarintInputs
    /\ target \in TargetWidths
    /\ wire = <<>>
    /\ vresult = None
    /\ spec = None
    /\ reported_size = None /\ parsed = None
    /\ compiled = None /\ respec = None
    /\ schema = None /\ gvalue = None /\ overflow_checks = None /\ unit_ser = None
    /\ serialized = None /\ unit_de = None /\ decoded = None

\* variable_length_encode_u64(z, out), z a u64
EncodeU64 ==
    /\ mode = "varint" /\ pc = "start"
    /\ SigBytes(z) <= 8
    /\ wire' = variable_length_encode(SubSeq(z, 1, 8))
    /\ pc' = "encoded"
    /\ UNCHANGED <<mode, z, target, vresult, spec, wireVars, compileVars, valueVars>>

\* variable_length_encode_u128(z, out)
EncodeU128 ==
    /\ mode = "varint" /\ pc = "start"
    /\ wire' = variable_length_encode(z)
    /\ pc' = "encoded"
    /\ UNCHANGED <<mode, z, target, vresult, spec, wireVars, compileVars, valueVars>>

\* variable_lenth_decode::<B>(input)
Decode ==
    /\ mode = "varint" /\ pc = "encoded"
    /\ vresult' = variable_lenth_decode(wire, target)
    /\ pc' = "decoded"
    /\ UNCHANGED <<mode, z, target, wire, spec, wireVars, compileVars, valueVars>>

VarintNext == EncodeU64 \/ EncodeU128 \/ Decode

SpecVarint == VarintInit /\ [][VarintNext]_vars

----------------------------------------------------------------------------
(* Driver of the schema wire codec                                         *)

\* the largest number of fields or variants of an authored Record, Tuple, Enum, Union
MaxFields == 2

\* the tuples over S with at most n entries
SeqsUpTo(S, n) == UNION {{Tup(t) : t \in [1..l -> S]} : l \in 0..n}

\* u64 values around the widths of the varint coding: 0, 1, 127, 128,
\* 2^56 - 1, 2^56, 2^64 - 1
U64Samples ==
    {U64(0), U64(1), U64(127), U64(128),
     SubSeq(AllOnes(55), 1, 8), SubSeq(PowerOfTwo(56), 1, 8), SubSeq(AllOnes(63), 1, 8)}

SizeSamples == {Size_Variable} \cup {Size_Fixed(n) : n \in U64Samples}

\* "", "A", and a two-byte character
WireNames == {<<>>, <<65>>, <<195, 169>>}

ScaleSamples == {0, 3, 4, 5, 255}

WireLeaves ==
    {Spec_Bool, Spec_Void}
        \cup {Spec_Uint(n) : n \in ScaleSamples}
        \cup {Spec_Int(n) : n \in ScaleSamples}
        \cup {Spec_BinaryFloatingPoint(InterchangeBinaryFloatingPointFormat[i]) : i \in 1..5}
        \cup {Spec_DecimalFloatingPoint(InterchangeDecimalFloatingPointFormat[i]) : i \in 1..3}
        \cup {Spec_Decimal(p, q) : p \in U64Samples, q \in U64Samples}
        \cup {Spec_String(size, StringEncodingFmt[i]) : size \in SizeSamples, i \in 1..3}
        \cup {Spec_Bytes(size) : size \in SizeSamples}
        \cup {Spec_Ref(n) : n \in WireNames}

\* the leaves put inside containers
WireCore ==
    {Spec_Bool, Spec_Uint(3), Spec_Int(4), Spec_String(Size_Variable, "Utf8"),
     Spec_Ref(<<65>>), Spec_Decimal(U64(128), U64(1))}

WireContainers(S) ==
    {Spec_Optional(s) : s \in S}
        \cup {Spec_List(size, s) : size \in {Size_Variable, Size_Fixed(U64(128))}, s \in S}
        \cup {Spec_Map(size, a, b) : size \in {Size_Variable, Size_Fixed(U64(1))},
                                     a \in S, b \in S}
        \cup {Spec_Name(n, s) : n \in WireNames, s \in S}
        \cup {Spec_Record(f) : f \in SeqsUpTo({<<65>>} \X S, MaxFields)}
        \cup {Spec_Enum(f) : f \in SeqsUpTo({<<>>} \X S, MaxFields)}
        \cup {Spec_Tuple(f) : f \in SeqsUpTo(S, MaxFields)}
        \cup {Spec_Union(f) : f \in SeqsUpTo(S, MaxFields)}

\* one container around a container
WireNested(S) ==
    {Spec_Optional(s) : s \in S}
        \cup {Spec_List(Size_Variable, s) : s \in S}
        \cup {Spec_Name(<<65>>, s) : s \in S}
        \cup {Spec_Record(<<<<<<65>>, s>>, <<<<66>>, Spec_Void>>>>) : s \in S}
        \cup {Spec_Union(<<Spec_Bool, s>>) : s \in S}

WireSpecs == WireLeaves \cup WireContainers(WireCore) \cup WireNested(WireContainers(WireCore))

WireInit ==
    /\ mode = "wire"
    /\ pc = "start"
    /\ spec \in WireSpecs
    /\ wire = <<>>
    /\ reported_size = None /\ parsed = None
    /\ z = None /\ target = None /\ vresult = None
    /\ compiled = None /\ respec = None
    /\ schema = None /\ gvalue = None /\ overflow_checks = None /\ unit_ser = None
    /\ serialized = None /\ unit_de = None /\ decoded = None

\* spec.write_as_bytes(&mut v), v an empty Vec; v is then what to_bytes returns
ToBytes ==
    /\ mode = "wire" /\ pc = "start"
    /\ reported_size' = to_bytes_internal(spec).n
    /\ wire' = to_bytes(spec)
    /\ pc' = "written"
    /\ UNCHANGED <<mode, spec, parsed, varintVars, compileVars, valueVars>>

\* Spec::read_from_bytes(&mut Cursor::new(bytes))
ReadFromBytes ==
    /\ mode = "wire" /\ pc = "written"
    /\ parsed' = read_from_bytes(wire)
    /\ pc' = "parsed"
    /\ UNCHANGED <<mode, spec, wire, reported_size, varintVars, compileVars, valueVars>>

\* Spec::read_from_bytes(&mut Cursor::new(&bytes[0..n])), n < bytes.len():
\* the stream is cut after n bytes
ReadFromPrefix ==
    /\ mode = "wire" /\ pc = "written"
    /\ \E n \in 0..(Len(wire) - 1) :
          /\ wire' = SubSeq(wire, 1, n)
          /\ parsed' = read_from_bytes(SubSeq(wire, 1, n))
    /\ pc' = "truncated"
    /\ UNCHANGED <<mode, spec, reported_size, varintVars, compileVars, valueVars>>

\* the kinds that have a one-byte alias
HasAlias(s) ==
    \/ s.k \in {"Uint", "Int"} /\ s.n <= 3
    \/ s.k = "BinaryFloatingPoint" /\ s.fmt \in {"Single", "Double"}
    \/ s.k = "String" /\ s.size.k = "Variable" /\ s.fmt = "Utf8"

\* the bytes of s written without the alias: the tag of its kind and what
\* follows the tag for the kinds that have no alias
GeneralForm(s) ==
    CASE s.k = "Uint" -> <<UINT, s.n>>
      [] s.k = "Int" -> <<INT, s.n>>
      [] s.k = "BinaryFloatingPoint" -> <<BINARY_FP>> \o BinaryFormat_encode(s.fmt).out
      [] s.k = "String" ->
            <<STRING_TAG>> \o Size_encode(s.size).out \o StringEncodingFmt_encode(s.fmt).out

\* Spec::read_from_bytes on the general form of a Spec that has an alias
ReadGeneralForm ==
    /\ mode = "wire" /\ pc = "start"
    /\ HasAlias(spec)
    /\ wire' = GeneralForm(spec)
    /\ parsed' = read_from_bytes(GeneralForm(spec))
    /\ pc' = "general"
    /\ UNCHANGED <<mode, spec, reported_size, varintVars, compileVars, valueVars>>

\* the tag bytes put before the payload of a size
SizeTags == {0, 1, 2, 255}

\* Size::decode on a tag byte followed by the varint of the size of a
\* Bytes(Fixed(n)) (nothing for Variable)
SizeDecode ==
    /\ mode = "wire" /\ pc = "start"
    /\ spec.k = "Bytes"
    /\ \E tag \in SizeTags :
          LET payload == IF spec.size.k = "Fixed"
                         THEN variable_length_encode_u64(spec.size.n).out ELSE <<>>
          IN /\ wire' = <<tag>> \o payload
             /\ parsed' = Size_decode(<<tag>> \o payload)
    /\ pc' = "size"
    /\ UNCHANGED <<mode, spec, reported_size, varintVars, compileVars, valueVars>>

WireNext == ToBytes \/ ReadFromBytes \/ ReadFromPrefix \/ ReadGeneralForm \/ SizeDecode

SpecWire == WireInit /\ [][WireNext]_vars

----------------------------------------------------------------------------
(* Driver of the schema compiler                                           *)

\* the names "A" and "B"
CompileNames == {<<65>>, <<66>>}

CompileLeaves == {Spec_Bool} \cup {Spec_Ref(n) : n \in CompileNames}

CompileSmall ==
    CompileLeaves \cup {Spec_Name(n, Spec_Bool) : n \in CompileNames}
        \cup {Spec_Optional(Spec_Ref(<<65>>))}

\* one node around s
Unary(S) ==
    {Spec_Optional(s) : s \in S} \cup {Spec_Name(n, s) : n \in CompileNames, s \in S}

\* the children that box_compile compiles
Boxed(S) ==
    {Spec_Optional(s) : s \in S}
        \cup {Spec_List(Size_Variable, s) : s \in S}
        \cup {Spec_Map(Size_Variable, Spec_Bool, s) : s \in S}
        \cup {Spec_Map(Size_Fixed(U64(1)), s, Spec_Bool) : s \in S}

\* a product or a sum of a and b, under the names "f" and "g"
Binary(S, T) ==
    UNION {{Spec_Record(<<<<<<102>>, a>>, <<<<103>>, b>>>>),
            Spec_Tuple(<<a, b>>),
            Spec_Enum(<<<<<<102>>, a>>, <<<<103>>, b>>>>),
            Spec_Union(<<a, b>>)} : a \in S, b \in T}

\* a record or an enumeration that uses the name "f" twice, and the sums
\* and products of no or one entry
Irregular(S) ==
    UNION {{Spec_Record(<<<<<<102>>, a>>, <<<<102>>, b>>>>),
            Spec_Enum(<<<<<<102>>, a>>, <<<<102>>, b>>>>),
            Spec_Enum(<<<<<<102>>, a>>>>), Spec_Union(<<a>>),
            Spec_Record(<<<<<<102>>, a>>>>), Spec_Tuple(<<a>>)} : a \in S, b \in S}

Empties == {Spec_Enum(<<>>), Spec_Union(<<>>), Spec_Record(<<>>), Spec_Tuple(<<>>)}

\* a record, a union or an enumeration of three entries
Ternary(S) ==
    UNION {{Spec_Record(<<<<<<102>>, a>>, <<<<103>>, b>>, <<<<102>>, c>>>>),
            Spec_Record(<<<<<<102>>, a>>, <<<<102>>, b>>, <<<<102>>, c>>>>),
            Spec_Record(<<<<<<102>>, a>>, <<<<103>>, b>>, <<<<104>>, c>>>>),
            Spec_Union(<<a, b, c>>)} : a \in S, b \in S, c \in S}

\* the schemas of tests::test_compile_error_cases_kinds for the duplicate
\* and the decimal errors, with the name "n"
CompileErrorCases ==
    {Spec_Record(<<<<<<102>>, Spec_Bool>>, <<<<102>>, Spec_Int(5)>>>>),
     Spec_Enum(<<<<<<102>>, Spec_Bool>>, <<<<102>>, Spec_Int(5)>>>>),
     Spec_Union(<<Spec_Name(<<110>>, Spec_Bytes(Size_Variable)), Spec_Ref(<<110>>)>>),
     Spec_Union(<<Spec_Bool, Spec_Bool>>),
     Spec_Decimal(U64(3), U64(4))}

CompileLevel1 ==
    CompileSmall \cup Unary(CompileSmall) \cup Binary(CompileLeaves, CompileLeaves)
        \cup Empties

CompileLevel2 ==
    CompileLevel1 \cup Unary(CompileLevel1) \cup Binary(CompileLevel1, CompileSmall)
        \cup Binary(CompileSmall, CompileLevel1)

\* the schema of tests::test_recursion, with the name "A"
RecursionCases ==
    {Spec_Name(<<65>>, Spec_Tuple(<<Spec_Int(3), Spec_Optional(Spec_Ref(<<65>>))>>))}

CompileSpecs ==
    CompileLevel2 \cup Unary(CompileLevel2) \cup RecursionCases
        \cup Boxed(CompileLevel1) \cup Unary(Boxed(CompileLevel1))
        \cup Irregular(CompileSmall) \cup Unary(Irregular(CompileSmall))
        \cup {s \in WireLeaves : s.k # "Ref"}
        \cup Ternary(CompileSmall \cup {Spec_Optional(Spec_Bool)}) \cup CompileErrorCases

CompileInit ==
    /\ mode = "compile"
    /\ pc = "start"
    /\ spec \in CompileSpecs
    /\ compiled = None
    /\ respec = None
    /\ wire = <<>>
    /\ z = None /\ target = None /\ vresult = None
    /\ reported_size = None /\ parsed = None
    /\ schema = None /\ gvalue = None /\ overflow_checks = None /\ unit_ser = None
    /\ serialized = None /\ unit_de = None /\ decoded = None

\* CompiledSpec::compile(spec)
Compile ==
    /\ mode = "compile" /\ pc = "start"
    /\ compiled' = compile(spec)
    /\ pc' = "compiled"
    /\ UNCHANGED <<mode, spec, wire, respec, varintVars, wireVars, valueVars>>

\* compiled.to_spec()
ToSpec ==
    /\ mode = "compile" /\ pc = "compiled"
    /\ compiled.k = "Ok"
    /\ respec' = to_spec(compiled.m.ctx, compiled.v)
    /\ pc' = "uncompiled"
    /\ UNCHANGED <<mode, spec, wire, compiled, varintVars, wireVars, valueVars>>

CompileNext == Compile \/ ToSpec

SpecCompile == CompileInit /\ [][CompileNext]_vars

----------------------------------------------------------------------------
(* Driver of the value codec                                               *)

\* how many times the values of a recursive schema enter a Ref
MaxDepth == 2

\* the sizes of the sized kinds: variable, fixed and a range, all small
ValueSizes ==
    {Size_Variable, Size_Fixed(U64(1)), Size_Fixed(U64(2)), Size_Fixed(U64(3)),
     Size_Range(U64(1), U64(2))}

\* the sized kinds under every size
SizedSchemas ==
    UNION {{Spec_Bytes(size), Spec_String(size, "Utf8"), Spec_String(size, "Ascii"),
            Spec_List(size, Spec_Void), Spec_List(size, Spec_Bool),
            Spec_Map(size, Spec_Uint(0), Spec_Void)} : size \in ValueSizes}

\* the schemas: every kind of leaf, every container, a name used twice and
\* a recursive name
ValueSchemas ==
    {Spec_Void, Spec_Bool}
        \cup {Spec_Uint(n) : n \in 0..5} \cup {Spec_Int(n) : n \in 0..5}
        \cup {Spec_BinaryFloatingPoint(InterchangeBinaryFloatingPointFormat[i]) : i \in 1..5}
        \cup {Spec_Decimal(U64(3), U64(1)),
              Spec_Bytes(Size_Variable), Spec_Bytes(Size_Fixed(U64(1))),
              Spec_String(Size_Variable, "Utf8"), Spec_String(Size_Fixed(U64(2)), "Utf8"),
              Spec_String(Size_Variable, "Ascii"),
              Spec_Optional(Spec_Bool),
              Spec_List(Size_Variable, Spec_Uint(0)),
              Spec_List(Size_Fixed(U64(1)), Spec_Bool),
              Spec_Map(Size_Variable, Spec_Uint(0), Spec_Bool),
              Spec_Record(<<<<<<102>>, Spec_Bool>>, <<<<103>>, Spec_Uint(0)>>>>),
              Spec_Tuple(<<Spec_Bool, Spec_Uint(0)>>),
              Spec_Enum(<<<<<<102>>, Spec_Bool>>, <<<<103>>, Spec_Void>>>>),
              Spec_Union(<<Spec_Bool, Spec_Void>>),
              Spec_Union(<<>>),
              Spec_Name(<<65>>, Spec_Bool),
              Spec_Tuple(<<Spec_Name(<<65>>, Spec_Bool), Spec_Ref(<<65>>)>>),
              Spec_Name(<<65>>, Spec_Tuple(<<Spec_Uint(0),
                                             Spec_Optional(Spec_Ref(<<65>>))>>))}
        \cup {Spec_Enum(<<<<<<103>>, Spec_Void>>, <<<<102>>, Spec_Bool>>>>),
              Spec_Record(<<<<<<103>>, Spec_Bool>>, <<<<102>>, Spec_Uint(0)>>>>),
              Spec_Tuple(<<Spec_Bytes(Size_Variable), Spec_Bytes(Size_Variable)>>),
              Spec_Int(64),
              Spec_Name(<<76>>, Spec_Tuple(<<Spec_Int(2),
                                             Spec_Optional(Spec_Ref(<<76>>))>>)),
              Spec_Name(<<65>>, Spec_Tuple(<<Spec_Name(<<66>>, Spec_Uint(0)),
                                             Spec_Optional(Spec_Ref(<<65>>))>>))}
        \cup {Spec_Tuple(<<Spec_String(Size_Fixed(U64(1)), "Utf8"), Spec_Bytes(Size_Variable)>>),
              Spec_Record(<<<<<<102>>, Spec_String(Size_Fixed(U64(1)), "Utf8")>>,
                            <<<<103>>, Spec_Bool>>>>),
              Spec_List(Size_Variable, Spec_String(Size_Fixed(U64(1)), "Utf8")),
              Spec_Map(Size_Variable, Spec_String(Size_Fixed(U64(1)), "Utf8"), Spec_Bool)}
        \cup SizedSchemas

\* len zero bytes
Zeros(len) == Tup([i \in 1..len |-> 0])

\* the floats 1.0, -0.0 and a NaN, w bytes wide
FloatSamples(w) ==
    {Tup([i \in 1..w |-> IF i = w THEN 63 ELSE IF i = w - 1 THEN (IF w = 4 THEN 128 ELSE 240)
                         ELSE 0]),
     Tup([i \in 1..w |-> IF i = w THEN 128 ELSE 0]),
     Tup([i \in 1..w |-> IF i = w THEN 127 ELSE IF i = w - 1 THEN 248 ELSE 0])}

\* the integers of a native type n: its least, its greatest and some between,
\* as far as they are TLC integers
IntegerSamples(n, signed) ==
    LET top == CASE n = 0 -> IF signed THEN 127 ELSE 255
                 [] n = 1 -> IF signed THEN 32767 ELSE 65535
                 [] OTHER -> 2147483647
    IN IF signed THEN {0 - top, -1, 0, 7, 8, 128, top} \cap ((0 - top)..top)
       ELSE {0, 1, 256, top} \cap (0..top)

RECURSIVE ValuesOf(_, _, _)
\* values offered to the encoder of the schema s: those it is made for and
\* some it has to refuse; names holds the bodies of the names entered, d is
\* the number of Refs the value may still enter
ValuesOf(s, names, d) ==
    CASE s.k = "Void" -> {Value_Void}
      [] s.k = "Bool" -> {GluinoValue("Bool", b) : b \in BOOLEAN}
      [] s.k \in {"Uint", "Int"} ->
            IF s.n <= 4
            THEN {GluinoValue(NativeKind[(IF s.k = "Uint"
                                          THEN <<"u8", "u16", "u32", "u64", "u128">>
                                          ELSE <<"i8", "i16", "i32", "i64", "i128">>)[s.n + 1]],
                              v) : v \in IntegerSamples(s.n, s.k = "Int")}
            ELSE {Value_Carried(IF s.k = "Uint" THEN "BigUint" ELSE "BigInt", t, Zeros(len))
                      : t \in {4, s.n, 64}, len \in {16, 32, 33}}
      [] s.k = "BinaryFloatingPoint" ->
            IF s.fmt = "Single" THEN {GluinoValue("Float", b) : b \in FloatSamples(4)}
            ELSE IF s.fmt = "Double" THEN {GluinoValue("Double", b) : b \in FloatSamples(8)}
            ELSE {Value_Carried("BinaryFloatingPoint", s.fmt, Zeros(len))
                      : len \in {FloatingPointBytes(s.fmt), 4}}
      [] s.k = "Decimal" -> {GluinoValue("Decimal", b) : b \in {<<>>, <<1, 44>>}}
      [] s.k = "Bytes" ->
            {GluinoValue("Bytes", b) : b \in {<<>>, <<1>>, <<1, 2>>, <<1, 2, 3>>}}
      [] s.k = "String" ->
            {GluinoValue(IF s.fmt = "Utf8" THEN "String" ELSE "NonUtf8String", b)
                 : b \in {<<>>, <<104>>, <<104, 105>>, <<97, 98, 99>>}}
      [] s.k = "Optional" ->
            {GluinoValue("Optional", <<>>)}
                \cup {GluinoValue("Optional", <<v>>) : v \in ValuesOf(s.spec, names, d)}
      [] s.k = "List" ->
            LET vs == ValuesOf(s.value_spec, names, d)
            IN {GluinoValue("List", <<>>)} \cup {GluinoValue("List", <<v>>) : v \in vs}
                   \cup {GluinoValue("List", <<a, b>>) : a \in vs, b \in vs}
                   \cup {GluinoValue("List", <<v, v, v>>) : v \in vs}
      [] s.k = "Map" ->
            LET keys == ValuesOf(s.key_spec, names, d)
                vs == ValuesOf(s.value_spec, names, d)
            IN {GluinoValue("Map", <<>>)}
                   \cup {GluinoValue("Map", <<<<key, v>>>>) : key \in keys, v \in vs}
                   \cup {GluinoValue("Map", <<<<t[1], v>>, <<t[2], v>>>>)
                             : t \in {t \in keys \X keys : t[1] # t[2]}, v \in vs}
                   \cup {GluinoValue("Map", <<<<t[1], v>>, <<t[2], v>>, <<t[3], v>>>>)
                             : t \in {t \in keys \X keys \X keys :
                                         Cardinality({t[1], t[2], t[3]}) = 3}, v \in vs}
      [] s.k \in {"Record", "Tuple"} ->
            LET field(i) == IF s.k = "Record" THEN s.fields[i][2] ELSE s.fields[i]
            IN IF Len(s.fields) # 2 THEN {GluinoValue(s.k, <<>>)}
               ELSE {GluinoValue(s.k, <<a, b>>)
                         : a \in ValuesOf(field(1), names, d),
                           b \in ValuesOf(field(2),
                                          IF field(1).k = "Name"
                                          THEN Fn(names @@ (field(1).name :> field(1).spec))
                                          ELSE names, d)}
                        \cup {GluinoValue(s.k, <<a>>) : a \in ValuesOf(field(1), names, d)}
                        \cup {GluinoValue(s.k, <<a, a, a>>)
                                  : a \in ValuesOf(field(1), names, d)}
      [] s.k \in {"Enum", "Union"} ->
            LET variant(i) == IF s.k = "Enum" THEN s.variants[i][2] ELSE s.variants[i]
            IN UNION {{Value_Sum(s.k, i - 1, v) : v \in ValuesOf(variant(i), names, d)}
                          : i \in 1..Len(s.variants)}
                   \cup {Value_Sum(s.k, Len(s.variants), Value_Void)}
      [] s.k = "Name" -> ValuesOf(s.spec, Fn(names @@ (s.name :> s.spec)), d)
      [] s.k = "Ref" ->
            IF d = 0 THEN {} ELSE ValuesOf(names[s.name], names, d - 1)

\* a value of another kind than any encoder here takes
Misfit == [k |-> "ConstSet", index |-> 0]

ValueInit ==
    /\ mode = "value"
    /\ pc = "start"
    /\ \E s \in ValueSchemas :
           LET c == compile(s)
           IN /\ c.k = "Ok"
              /\ schema = [cs |-> c.v, heap |-> c.m.ctx]
              /\ gvalue \in ValuesOf(s, <<>>, MaxDepth) \cup {Misfit}
    /\ overflow_checks \in BOOLEAN
    /\ unit_ser = None /\ serialized = None /\ unit_de = None /\ decoded = None
    /\ wire = <<>>
    /\ spec = None
    /\ z = None /\ target = None /\ vresult = None
    /\ reported_size = None /\ parsed = None
    /\ compiled = None /\ respec = None

\* get_unit_serialization_function(&schema)
GetUnitSerializationFunction ==
    /\ mode = "value" /\ pc = "start"
    /\ unit_ser' = get_unit_serialization_function(schema.heap, schema.cs)
    /\ pc' = "ser"
    /\ UNCHANGED <<mode, wire, spec, schema, gvalue, overflow_checks, serialized, unit_de,
                   decoded, varintVars, wireVars, compileVars>>

\* unit_ser.serialize(gvalue, &mut wire)
SerializeValue ==
    /\ mode = "value" /\ pc = "ser"
    /\ unit_ser.ok
    /\ serialized' = Serialize(unit_ser.ser, unit_ser.cells, gvalue, overflow_checks)
    /\ wire' = wire \o serialized'.out
    /\ pc' = "serialized"
    /\ UNCHANGED <<mode, spec, schema, gvalue, overflow_checks, unit_ser, unit_de,
                   decoded, varintVars, wireVars, compileVars>>

\* get_unit_deserialization_function(&schema)
GetUnitDeserializationFunction ==
    /\ mode = "value" /\ pc = "serialized"
    /\ unit_de' = get_unit_deserialization_function(schema.cs)
    /\ pc' = "de"
    /\ UNCHANGED <<mode, wire, spec, schema, gvalue, overflow_checks, unit_ser, serialized,
                   decoded, varintVars, wireVars, compileVars>>

\* unit_de.deserialize(&mut wire)
DeserializeValue ==
    /\ mode = "value" /\ pc = "de"
    /\ unit_de.ok
    /\ decoded' = Deserialize(unit_de.de, wire)
    /\ wire' = IF decoded'.res = "Ok" THEN decoded'.rest ELSE wire
    /\ pc' = "deserialized"
    /\ UNCHANGED <<mode, spec, schema, gvalue, overflow_checks, unit_ser, serialized,
                   unit_de, varintVars, wireVars, compileVars>>

ValueNext ==
    \/ GetUnitSerializationFunction
    \/ SerializeValue
    \/ GetUnitDeserializationFunction
    \/ DeserializeValue

SpecValue == ValueInit /\ [][ValueNext]_vars

----------------------------------------------------------------------------
(* Properties of the varint codec (SpecVarint)                             *)

\* C4 (as stated): decoding the bytes written for z into a target of
\* BYTE_LEN bytes returns Respresentable(z) whenever z < 2^(8 * BYTE_LEN).
\* Violated: z = 128 into u16, z = 2^56 into u64.
C4_VarIntFit ==
    pc = "decoded" /\ SigBytes(z) <= target
        => vresult.k = "Respresentable" /\ SameNumber(vresult.v, z)

----------------------------------------------------------------------------
(* Properties of the schema wire codec (SpecWire)                          *)

\* C1 (as stated): Spec::read_from_bytes applied to the bytes of
\* s.to_bytes() returns Ok(s) for every Spec s.
\* Violated: Decimal{precision: 2^56, scale: 0}, Bytes(Size::Fixed(2^56)).
C1_WireRoundTrip ==
    pc = "parsed" => parsed.ok /\ parsed.v = spec

----------------------------------------------------------------------------
(* Properties of the schema compiler (SpecCompile)                         *)

\* compile has returned (or panicked, or is known never to return)
Compiled == mode = "compile" /\ pc # "start"

\* the history of the call of compile
Log == compiled.m.log

\* the Name and Ref nodes entered, as positions in Log
NameEvents == {j \in 1..Len(Log) : Log[j].ev = "Name"}
RefEvents == {j \in 1..Len(Log) : Log[j].ev = "Ref"}
SumEvents == {j \in 1..Len(Log) : Log[j].ev = "Sum"}

\* no Name or Ref node is entered after event j
LastEntered(j) == \A h \in NameEvents \cup RefEvents : h <= j

\* compile failed with the error e
FailedWith(e) == compiled.k = "Err" /\ compiled.err = e

\* path p ends in a node that lies in the body of Name{n, ..} with only
\* nodes of the kinds in between
Through(p, n, kinds) ==
    \E i \in 1..(Len(p) - 1) :
        /\ p[i] = [k |-> "Name", name |-> n]
        /\ \A h \in (i + 1)..(Len(p) - 1) : p[h].k \in kinds

\* path p ends in a node that lies in the body of Name{n, ..} below an
\* Optional, List or Map
Boxes(p, n) ==
    \E i \in 1..(Len(p) - 1) :
        /\ p[i] = [k |-> "Name", name |-> n]
        /\ \E h \in (i + 1)..(Len(p) - 1) : p[h].k \in {"Optional", "List", "Map"}

NoSumOn(p) == \A h \in 1..Len(p) : p[h].k \notin {"Enum", "Union"}

\* C2: when compile(s) succeeds, compile(s).to_spec() == s.
C2_CompileRoundTrip ==
    mode = "compile" /\ pc = "uncompiled" => respec = spec

\* a round trip of a schema with a Name bound inside the body of another
\* Name and a recursive Ref under an Optional, List or Map
C2_Witness ==
    /\ mode = "compile" /\ pc = "uncompiled" /\ respec = spec
    /\ \E j \in NameEvents : \E i \in 1..(Len(Log[j].path) - 1) : Log[j].path[i].k = "Name"
    /\ \E j \in RefEvents : Boxes(Log[j].path, Log[j].name)

\* the sum checked at event j: every variant was compiled in the end, and
\* one of them at its first attempt
Productive(e) ==
    /\ Len(e.done) = e.n
    /\ \A i \in 1..e.n : e.done[i]
    /\ \E i \in 1..e.n : e.attempts[i] = 1

RECURSIVE NodesOf(_)
NodesOf(cs) ==
    LET st == cs.structure
    IN {cs} \cup
       CASE st.k = "Map" -> NodesOf(st.key_spec) \cup NodesOf(st.value_spec)
         [] st.k = "List" -> NodesOf(st.value_spec)
         [] st.k = "Optional" -> NodesOf(st.spec)
         [] st.k = "Record" -> UNION {NodesOf(st.field_to_spec[f]) : f \in DOMAIN st.field_to_spec}
         [] st.k = "Enum" ->
               UNION {NodesOf(st.variant_to_spec[f]) : f \in DOMAIN st.variant_to_spec}
         [] st.k = "Tuple" -> UNION {NodesOf(st.fields[i]) : i \in 1..Len(st.fields)}
         [] st.k = "Union" -> UNION {NodesOf(st.variants[i]) : i \in 1..Len(st.variants)}
         [] OTHER -> {}

\* the compiled schemas with structure Name(n) that were made when the body
\* of n was complete: the definition site and the Ref sites after it
CompletedSites(n) ==
    LET ctx == compiled.m.ctx
    IN {c \in NodesOf(compiled.v) : c.structure = Structure_Name(n)}
        \cup UNION {{c \in NodesOf(ctx[b].cs) :
                        /\ c.structure = Structure_Name(n)
                        /\ c.named_schema[n] = "resolved"} : b \in DOMAIN ctx \ {n}}

\* Record[(f, Name{n, Bool}), (g, Ref n)]
C7_Outer(n) ==
    Spec_Record(<<<<<<102>>, Spec_Name(n, Spec_Bool)>>, <<<<103>>, Spec_Ref(n)>>>>)

C8_NamedEqualsAnonymous ==
    (/\ Compiled /\ spec.k = "Name" /\ compiled.k = "Ok"
     /\ compile(spec.spec).k = "Ok")
        => compiled.v.fingerprint = compile(spec.spec).v.fingerprint

\* the child Specs of a Spec, in traversal order
SpecChildren(s) ==
    CASE s.k = "Map" -> <<s.key_spec, s.value_spec>>
      [] s.k = "List" -> <<s.value_spec>>
      [] s.k \in {"Optional", "Name"} -> <<s.spec>>
      [] s.k = "Record" -> Tup([i \in 1..Len(s.fields) |-> s.fields[i][2]])
      [] s.k = "Enum" -> Tup([i \in 1..Len(s.variants) |-> s.variants[i][2]])
      [] s.k = "Tuple" -> s.fields
      [] s.k = "Union" -> s.variants
      [] OTHER -> <<>>

\* the names the Name nodes of a Spec bind, in traversal order
RECURSIVE Bound(_), BoundIn(_, _)
Bound(s) == (IF s.k = "Name" THEN <<s.name>> ELSE <<>>) \o BoundIn(SpecChildren(s), 1)
BoundIn(ss, i) == IF i > Len(ss) THEN <<>> ELSE Bound(ss[i]) \o BoundIn(ss, i + 1)

BoundTwice(s) ==
    {Bound(s)[j] : j \in {j \in 1..Len(Bound(s)) :
                             \E i \in 1..(j - 1) : Bound(s)[i] = Bound(s)[j]}}

\* C9: when a Name node is entered whose name an earlier Name node of the
\* same compile has bound, compile fails with DuplicateName of that name, at
\* that node; a Spec that binds a name twice never compiles; a record whose
\* first field compiles and binds n (at the top or in an inner record) and
\* whose second field is Name{n, ..} fails with DuplicateName(n).
C9_DuplicateBinding ==
    Compiled =>
        /\ \A i, j \in NameEvents :
              i < j /\ Log[i].name = Log[j].name
                  => FailedWith(DuplicateName(Log[j].name)) /\ LastEntered(j)
        /\ BoundTwice(spec) # {} => compiled.k # "Ok"
        /\ (/\ spec.k = "Record" /\ Len(spec.fields) = 2
            /\ spec.fields[2][2].k = "Name"
            /\ \E i \in 1..Len(Bound(spec.fields[1][2])) :
                  Bound(spec.fields[1][2])[i] = spec.fields[2][2].name
            /\ compile(spec.fields[1][2]).k = "Ok")
               => FailedWith(DuplicateName(spec.fields[2][2].name))

\* two sibling fields that bind one name
C9_Witness ==
    /\ Compiled /\ FailedWith(DuplicateName(<<65>>))
    /\ spec.k = "Record" /\ Len(spec.fields) = 2
    /\ spec.fields[1][2].k = "Name" /\ spec.fields[2][2].k = "Name"
    /\ \E i, j \in NameEvents : i < j /\ Log[i].name = Log[j].name

\* Enum[(f, Ref n), (g, Name{n, Bool})]
C10_Example(n) ==
    Spec_Enum(<<<<<<102>>, Spec_Ref(n)>>, <<<<103>>, Spec_Name(n, Spec_Bool)>>>>)

\* C10: a Ref{n} compiled when no Name{n, ..} was entered before it fails the
\* compile with UndefinedName(n), at that node, also when a later sibling
\* binds n as in Enum[(f, Ref n), (g, Name{n, Bool})].
C10_BindingOrder ==
    Compiled =>
        /\ \A j \in RefEvents :
              (\A i \in NameEvents : i < j => Log[i].name # Log[j].name)
                  => /\ Log[j].res = "UndefinedName"
                     /\ FailedWith(UndefinedName(Log[j].name))
                     /\ LastEntered(j)
        /\ \A n \in CompileNames :
              spec = C10_Example(n) => FailedWith(UndefinedName(n))

\* the enumeration of the example, refused
C10_Witness ==
    /\ Compiled /\ spec = C10_Example(<<65>>)
    /\ FailedWith(UndefinedName(<<65>>))
    /\ RefEvents # {}

----------------------------------------------------------------------------
(* Properties of the value codec (SpecValue)                               *)

\* C3 (as stated): for a schema of every kind and every value that its
\* encoder accepts, the decoder synthesized from the same schema exists and,
\* run on the bytes the encoder wrote, returns a value equal to the one
\* encoded.  Violated: Optional(Bool) with Some(false), Bytes(Variable) with [1].
C3_ValueRoundTrip ==
    (mode = "value" /\ pc \in {"de", "deserialized"} /\ serialized.res = "Ok") =>
        /\ unit_de.ok
        /\ pc = "deserialized" =>
               decoded.res = "Ok" /\ ValueEq(decoded.v, gvalue)

----------------------------------------------------------------------------
(* Properties of the schema compiler (SpecCompile): the errors of the      *)
(* Union, Record and Decimal arms                                          *)

\* the state in which compile_structure_internal is entered for the root
RootEntry ==
    [ctx |-> <<>>, non |-> {}, used |-> {}, path |-> <<Node(spec)>>, log |-> <<>>]

\* the variants of the Union at the root as compiled before the search for
\* duplicates
RootVariants ==
    compile_variants_with_loop_checking(
        Tup([i \in 1..Len(spec.variants) |-> <<i - 1, spec.variants[i]>>]), RootEntry)

RootVariant(i) == RootVariants.v[i - 1]

\* the variants whose fingerprint is the one of an earlier variant
LaterEqual ==
    {j \in 1..Len(spec.variants) :
        \E h \in 1..(j - 1) : RootVariant(h).fingerprint = RootVariant(j).fingerprint}

\* the members of the set S of indices, in increasing order
Ascending(S) ==
    Tup([i \in 1..Cardinality(S) |->
            CHOOSE j \in S : Cardinality({h \in S : h < j}) = i - 1])

C11_Named == Spec_Union(<<Spec_Name(<<110>>, Spec_Bytes(Size_Variable)), Spec_Ref(<<110>>)>>)

\* C11: a Union whose variants all compile fails with
\* DuplicateUnionVariantSpecs iff two compiled variants have equal
\* fingerprints; the reported list is, in order, the variants whose
\* fingerprint equals that of an earlier variant; Union[Bool, Bool] and
\* Union[Name{n, Bytes(Variable)}, Ref n] fail with this error.
C11_UnionDuplicates ==
    /\ (Compiled /\ spec.k = "Union" /\ RootVariants.k = "Ok") =>
          IF LaterEqual = {}
          THEN /\ compiled.k = "Ok"
               /\ compiled.v.structure =
                     Structure_Union(Tup([i \in 1..Len(spec.variants) |-> RootVariant(i)]))
          ELSE FailedWith(DuplicateUnionVariantSpecs(
                   Tup([i \in 1..Cardinality(LaterEqual) |->
                           RootVariant(Ascending(LaterEqual)[i])])))
    /\ (Compiled /\ spec \in {Spec_Union(<<Spec_Bool, Spec_Bool>>), C11_Named}) =>
          compiled.k = "Err" /\ compiled.err.k = "DuplicateUnionVariantSpecs"

\* a Union of three variants fails because the third variant has the
\* fingerprint of the first and not of the second
C11_Witness ==
    /\ Compiled /\ spec.k = "Union" /\ Len(spec.variants) = 3
    /\ RootVariants.k = "Ok"
    /\ LaterEqual = {3}
    /\ RootVariant(2).fingerprint # RootVariant(3).fingerprint
    /\ compiled.k = "Err" /\ Len(compiled.err.specs) = 1

\* the fields of the Record at the root as the loop of the Record arm
\* compiles them
RootFields == CompileFields(spec.fields, 1, <<>>, {}, RootEntry)

\* the field names that occur more than once
Repeated ==
    {spec.fields[j][1] : j \in {j \in 1..Len(spec.fields) :
                                   \E h \in 1..(j - 1) : spec.fields[h][1] = spec.fields[j][1]}}

\* C12: a Record whose field specs all compile fails with
\* DuplicateRecordFieldNames(S) iff some field name occurs more than once,
\* S being the set of the names that occur more than once; otherwise it
\* succeeds with fields in declaration order.
C12_RecordDuplicates ==
    (Compiled /\ spec.k = "Record" /\ RootFields.k = "Ok") =>
        IF Repeated = {}
        THEN /\ compiled.k = "Ok"
             /\ compiled.v.structure.k = "Record"
             /\ compiled.v.structure.fields =
                   Tup([i \in 1..Len(spec.fields) |-> spec.fields[i][1]])
        ELSE FailedWith(DuplicateRecordFieldNames(Repeated))

\* a Record of three fields, the first and the third of one name, fails
C12_Witness ==
    /\ Compiled /\ spec.k = "Record" /\ Len(spec.fields) = 3
    /\ RootFields.k = "Ok"
    /\ spec.fields[1][1] = spec.fields[3][1] /\ spec.fields[1][1] # spec.fields[2][1]
    /\ FailedWith(DuplicateRecordFieldNames({spec.fields[1][1]}))

\* scale > precision, both u64: the highest byte that differs is greater
ScaleExceeds ==
    \E i \in 1..8 :
        /\ spec.scale[i] > spec.precision[i]
        /\ \A j \in (i + 1)..8 : spec.scale[j] = spec.precision[j]

\* C13: compiling Decimal{precision, scale} fails with IllegalDecimalFmt iff
\* scale > precision, and otherwise yields the structure
\* Decimal{precision, scale} unchanged; precision 3 with scale 4 fails, and
\* scale == precision succeeds.
C13_DecimalFmt ==
    (Compiled /\ spec.k = "Decimal") =>
        /\ IF ScaleExceeds THEN FailedWith(IllegalDecimalFmt)
           ELSE /\ compiled.k = "Ok"
                /\ compiled.v.structure =
                      Structure_Decimal([precision |-> spec.precision, scale |-> spec.scale])
        /\ spec = Spec_Decimal(U64(3), U64(4)) => FailedWith(IllegalDecimalFmt)
        /\ spec.scale = spec.precision => compiled.k = "Ok"

\* Decimal{precision: 3, scale: 4} was compiled and failed
C13_Witness ==
    /\ Compiled /\ spec = Spec_Decimal(U64(3), U64(4))
    /\ FailedWith(IllegalDecimalFmt)

----------------------------------------------------------------------------
(* Properties of the schema wire codec (SpecWire): truncation, aliases,    *)
(* sizes and the reported count                                            *)

\* C14 (as stated): read_from_bytes of a proper prefix of s.to_bytes()
\* returns the error UnexpectedEndOfBytes and no other error kind.
\* Violated: the prefix [46] of the bytes of Decimal{precision: 1, scale: 0}
\* gives VariableLengthDecodingError(IncompleteVariableLengthEncoding).
C14_TruncatedEOF ==
    (mode = "wire" /\ pc = "truncated") =>
        ~parsed.ok /\ parsed.err = [k |-> "UnexpectedEndOfBytes"]

\* the alias bytes: 0..3 for Uint, 4..7 for Int, 8 Single, 9 Double, 10 for
\* String(Variable, Utf8)
AliasByte(s) ==
    CASE s.k = "Uint" -> s.n
      [] s.k = "Int" -> 4 + s.n
      [] s.k = "BinaryFloatingPoint" -> IF s.fmt = "Single" THEN 8 ELSE 9
      [] s.k = "String" -> 10

\* the tags of the general forms [33,k], [35,k], [36,fmt], [49,size,encoding]
GeneralTag(s) ==
    CASE s.k = "Uint" -> 33
      [] s.k = "Int" -> 35
      [] s.k = "BinaryFloatingPoint" -> 36
      [] s.k = "String" -> 49

\* C15: for Uint(0..3), Int(0..3), Single, Double and String(Variable, Utf8)
\* to_bytes emits exactly the one-byte alias, never the general form, and
\* read_from_bytes maps both the alias byte and the general form to the
\* same Spec.
C15_AliasTags ==
    (mode = "wire" /\ HasAlias(spec)) =>
        /\ pc \in {"written", "parsed"} => wire = <<AliasByte(spec)>>
        /\ pc = "general" =>
              Len(wire) = (IF spec.k = "String" THEN 3 ELSE 2) /\ wire[1] = GeneralTag(spec)
        /\ pc \in {"parsed", "general"} => parsed = Ok(spec, <<>>)

\* the general form of String(Variable, Utf8) was read
C15_Witness ==
    /\ mode = "wire" /\ pc = "general"
    /\ spec = Spec_String(Size_Variable, "Utf8")
    /\ wire[1] = 49 /\ Len(wire) = 3
    /\ parsed.ok /\ parsed.v = spec

\* C16 (as stated): Size::encode writes tag byte 0 for Variable and tag
\* byte 1 followed by varint(n) for Fixed(n); Size::decode reads tag 0 as
\* Variable and tag 1 as Fixed; any other tag gives
\* UnknownSizeFormatFlag(tag).
\* Violated: Size::Variable is written as [1] and Size::Fixed(n) as [0] varint(n).
C16_SizeWireForm ==
    /\ (mode = "wire" /\ pc = "written" /\ spec.k = "Bytes") =>
          wire = <<48>> \o (IF spec.size.k = "Variable" THEN <<0>>
                            ELSE <<1>> \o variable_length_encode(spec.size.n))
    /\ (mode = "wire" /\ pc = "size") =>
          /\ wire[1] = 0 => parsed.ok /\ parsed.v = Size_Variable
          /\ wire[1] = 1 /\ spec.size.k = "Fixed" /\ spec.size.n[8] = 0 =>
                parsed.ok /\ parsed.v = spec.size
          /\ wire[1] \notin {0, 1} =>
                ~parsed.ok /\ parsed.err = [k |-> "UnknownSizeFormatFlag", b |-> wire[1]]

\* C17: the usize returned by s.write_as_bytes(sink) equals the number of
\* bytes appended to the sink, for every variant including the nested ones.
C17_ReportedSize ==
    (mode = "wire" /\ pc = "written") => reported_size = Len(wire)

\* a Record whose first field is a Map was written, names and counts included
C17_Witness ==
    /\ mode = "wire" /\ pc = "written"
    /\ spec.k = "Record" /\ Len(spec.fields) = 2 /\ spec.fields[1][2].k = "Map"
    /\ Len(wire) >= 8 /\ reported_size = Len(wire)

----------------------------------------------------------------------------
(* Properties of the value codec (SpecValue): sizes and sums               *)

\* the compiled structure at the root of the schema
Root == schema.cs.structure

\* the kind of the values that the encoder of a sized structure takes
SizedKind(st) ==
    CASE st.k = "String" -> IF st.fmt = "Utf8" THEN "String" ELSE "NonUtf8String"
      [] OTHER -> st.k

\* the encoder of a sized kind was run on a value of its kind
SizedRun ==
    /\ mode = "value" /\ pc = "serialized"
    /\ Root.k \in {"Bytes", "String", "List", "Map"}
    /\ gvalue.k = SizedKind(Root)

\* the bytes of an element of the Lists, Maps and products here: nothing for
\* Void, one byte for a Bool or a u8, the length and the bytes for Bytes of
\* variable size, the bytes alone for a String of fixed size
ElementBytes(e) ==
    CASE e.k = "Void" -> <<>>
      [] e.k = "Bool" -> <<IF e.v THEN 1 ELSE 0>>
      [] e.k = "Uint8" -> <<e.v>>
      [] e.k = "Bytes" -> <<Len(e.v)>> \o e.v
      [] e.k = "String" -> e.v

RECURSIVE Flat(_)
\* the concatenation of a tuple of byte strings
Flat(t) == IF Len(t) = 0 THEN <<>> ELSE Head(t) \o Flat(Tail(t))

\* a List, Map, Record or Tuple was given to its own encoder and passed the
\* test of its size
ContainerRun ==
    /\ mode = "value" /\ serialized # None
    /\ \/ unit_ser.ser.ser = "ListSer" /\ gvalue.k = "List"
       \/ unit_ser.ser.ser = "MapSer" /\ gvalue.k = "Map"
       \/ unit_ser.ser.ser = "ProductValueSer" /\ gvalue.k \in {"Record", "Tuple"}
    /\ IF unit_ser.ser.ser = "ProductValueSer"
       THEN Len(gvalue.v) = Len(unit_ser.ser.field_sers)
       ELSE valiate_size(unit_ser.ser.spec_size, Len(gvalue.v))

\* the elements in the order of their encoding, the key of a map entry
\* before its value
Elements ==
    IF gvalue.k = "Map"
    THEN Tup([i \in 1..(2 * Len(gvalue.v)) |-> gvalue.v[(i + 1) \div 2][2 - (i % 2)]])
    ELSE gvalue.v

\* the encoder of element i
ElementSer(i) ==
    CASE unit_ser.ser.ser = "ListSer" -> unit_ser.ser.value_ser
      [] unit_ser.ser.ser = "MapSer" ->
            IF i % 2 = 1 THEN unit_ser.ser.key_ser ELSE unit_ser.ser.value_ser
      [] OTHER -> unit_ser.ser.field_sers[i]

\* what the encoder of element i does on its own
ElementRun(i) == Serialize(ElementSer(i), unit_ser.cells, Elements[i], overflow_checks)

\* the elements that their encoder refuses
Failing == {i \in 1..Len(Elements) : ElementRun(i).res # "Ok"}

\* the schema of element i of a value of the schema at the root
ElementSchema(i) ==
    CASE Root.k = "List" -> Root.value_spec.structure
      [] Root.k = "Map" ->
            IF i % 2 = 1 THEN Root.key_spec.structure ELSE Root.value_spec.structure
      [] Root.k = "Record" -> Root.field_to_spec[Root.fields[i]].structure
      [] Root.k = "Tuple" -> Root.fields[i].structure

\* the element e has the length that a schema of fixed size asks for
Fits(st, e) ==
    (st.k \in {"Bytes", "String"} /\ st.size.k = "Fixed") => U64(Len(e.v)) = st.size.n

\* every element of a List, Map, Record or Tuple is one its schema takes
ElementsAccepted ==
    (Root.k \in {"List", "Map", "Record", "Tuple"} /\ gvalue.k = Root.k) =>
        \A i \in 1..Len(Elements) :
            (Root.k \in {"Record", "Tuple"} => i <= Len(Root.fields))
                => Fits(ElementSchema(i), Elements[i])

\* the bytes of the value without a length prefix
Payload ==
    CASE gvalue.k = "List" ->
            Flat(Tup([i \in 1..Len(gvalue.v) |-> ElementBytes(gvalue.v[i])]))
      [] gvalue.k = "Map" ->
            Flat(Tup([i \in 1..Len(gvalue.v) |->
                        ElementBytes(gvalue.v[i][1]) \o ElementBytes(gvalue.v[i][2])]))
      [] OTHER -> gvalue.v

\* the length of the value (bytes, elements or entries), below 128, and its varint
Length == Len(gvalue.v)
Prefixed == <<Length>> \o Payload

\* C18: with Size::Fixed(n) the Bytes, String, List and Map encoders write a
\* value of length n with no length prefix and reject any other length with
\* IncorrectDataSize{expected Fixed(n), actual length, kind} before any byte
\* is written (String(Fixed(3), Utf8) with "hi": actual 2, kind String);
\* with Size::Variable every length is accepted and varint(length) is
\* written before the payload. The elements of the Lists and Maps are ones
\* their encoders take.
C18_FixedVariableSize ==
    (SizedRun /\ ElementsAccepted) =>
        /\ Root.size.k = "Fixed" =>
              IF U64(Length) = Root.size.n
              THEN serialized = SerOk(Len(Payload), Payload) /\ wire = Payload
              ELSE /\ serialized =
                        SerErr(IncorrectDataSize(Root.size, Length, gvalue.k), <<>>)
                   /\ wire = <<>>
        /\ Root.size.k = "Variable" =>
              serialized = SerOk(Len(Prefixed), Prefixed) /\ wire = Prefixed
        /\ (Root = Spec_String(Size_Fixed(U64(3)), "Utf8") /\ gvalue.v = <<104, 105>>) =>
              /\ serialized.res = "Err"
              /\ serialized.err = [k |-> "IncorrectDataSize",
                                   expected_size |-> [k |-> "Fixed", n |-> U64(3)],
                                   actual_size |-> 2, size_value_kind |-> "String"]

\* the encoder of String(Fixed(3), Utf8) refused "hi"
C18_Witness ==
    /\ SizedRun
    /\ Root = Spec_String(Size_Fixed(U64(3)), "Utf8") /\ gvalue.v = <<104, 105>>
    /\ serialized.res = "Err" /\ wire = <<>>

\* C19 (as stated): an encoder whose size is Range{start, end} accepts a value
\* of length L iff start <= L < end (L == end is rejected with
\* IncorrectDataSize), and writes varint(L) as prefix when it accepts.
\* Violated: Bytes(Range{1, 2}) accepts the two bytes [1, 2].
C19_RangeHalfOpen ==
    (SizedRun /\ Root.size.k = "Range") =>
        IF U64Leq(Root.size.start, U64(Length)) /\ LeLess(U64(Length), Root.size.end, 8)
        THEN serialized = SerOk(Len(Prefixed), Prefixed)
        ELSE serialized = SerErr(IncorrectDataSize(Root.size, Length, gvalue.k), <<>>)

\* the encoder of a sum was run on a value of a sum
SumRun ==
    /\ mode = "value" /\ pc = "serialized"
    /\ Root.k \in {"Enum", "Union"}
    /\ gvalue.k \in {"Enum", "Union"}

\* the schema of variant i (from 0) of the sum at the root, as declared
DeclaredVariant(i) ==
    IF Root.k = "Enum" THEN Root.variant_to_spec[Root.variants[i + 1]].structure
    ELSE Root.variants[i + 1].structure

\* C20: for a sum of k variants and a value (i, v), SumValueSer writes
\* varint(i) followed by the encoding of v by the encoder of variant i
\* (declaration order, from 0) when i < k; when i >= k it returns
\* InvalidVariantId{variant_id: i, max_variant_id: k - 1} and writes nothing.
C20_SumEncoding ==
    SumRun =>
        IF gvalue.id < Len(Root.variants)
        THEN LET inner == Serialize(unit_ser.ser.varient_sers[gvalue.id + 1],
                                    unit_ser.cells, gvalue.v, overflow_checks)
             IN /\ inner.res = "Ok" =>
                      /\ serialized = SerOk(1 + inner.n, <<gvalue.id>> \o inner.out)
                      /\ wire = <<gvalue.id>> \o inner.out
                /\ DeclaredVariant(gvalue.id).k = "Void" /\ gvalue.v.k = "Void" =>
                      wire = <<gvalue.id>>
                /\ DeclaredVariant(gvalue.id).k = "Bool" /\ gvalue.v.k = "Bool" =>
                      Len(wire) = 2 /\ wire[1] = gvalue.id
        ELSE /\ serialized =
                  SerErr(InvalidVariantId(gvalue.id, Len(Root.variants) - 1), <<>>)
             /\ serialized.err = [k |-> "InvalidVariantId", variant_id |-> gvalue.id,
                                  max_variant_id |-> Len(Root.variants) - 1]
             /\ wire = <<>>

\* the second variant of Enum[(g, Void), (f, Bool)] was written
C20_Witness ==
    /\ SumRun /\ Root.k = "Enum" /\ Root.variants = <<<<103>>, <<102>>>>
    /\ gvalue.id = 1 /\ gvalue.v.k = "Bool"
    /\ serialized.res = "Ok" /\ Len(wire) = 2 /\ wire[1] = 1

----------------------------------------------------------------------------
(* Properties of the value codec (SpecValue): products, big integers,      *)
(* names and failing elements                                              *)

\* the encoder of a product was run on a value of a product
ProductRun ==
    /\ mode = "value" /\ pc = "serialized"
    /\ Root.k \in {"Record", "Tuple"}
    /\ gvalue.k \in {"Record", "Tuple"}

\* the encodings of the sub-values (each a Bool, a u8 or Bytes of variable
\* size), one after the other
FieldBytes == Flat(Tup([i \in 1..Len(gvalue.v) |-> ElementBytes(gvalue.v[i])]))

\* C21: for a product of m fields, ProductValueSer given exactly m sub-values
\* writes the field encodings in declaration order with no header and no
\* separator and returns the sum of their sizes; given another number of
\* sub-values it returns IncorrectNumberOfFields{correct m, actual} and
\* writes nothing. The m sub-values are ones the field encoders take.
C21_ProductEncoding ==
    (ProductRun /\ ElementsAccepted) =>
        IF Len(gvalue.v) = Len(Root.fields)
        THEN serialized = SerOk(Len(FieldBytes), FieldBytes) /\ wire = FieldBytes
        ELSE /\ serialized =
                  SerErr(IncorrectNumberOfFields(Len(Root.fields), Len(gvalue.v)), <<>>)
             /\ serialized.err = [k |-> "IncorrectNumberOfFields",
                                  correct_number_of_fields |-> Len(Root.fields),
                                  actual_number_of_fields |-> Len(gvalue.v)]
             /\ wire = <<>>

\* Record[(g, Bool), (f, Uint(0))] wrote true and 256 - 1 as [1, 255]
C21_Witness ==
    /\ ProductRun /\ Root.k = "Record" /\ Root.fields = <<<<103>>, <<102>>>>
    /\ Len(gvalue.v) = 2 /\ gvalue.v[1].v = TRUE /\ gvalue.v[2].v = 255
    /\ serialized = SerOk(2, <<1, 255>>) /\ wire = <<1, 255>>

\* the encoder of a big integer was run on a value of its kind
BigRun ==
    /\ mode = "value" /\ pc = "serialized"
    /\ Root.k \in {"Uint", "Int"} /\ Root.n >= 5
    /\ gvalue.k = (IF Root.k = "Uint" THEN "BigUint" ELSE "BigInt")

\* C22 (as stated): the encoder of Uint(k) or Int(k), k >= 5, writes the
\* buffer of BigUint(t, bytes) or BigInt(t, bytes) only when bytes.len() is
\* exactly 2^k, k taken from the schema, and otherwise returns
\* InncorrectNumberOfIntegerBytes{expect 2^k, actual bytes.len()}; no shift
\* overflows.
\* Violated: Uint(5) writes the 16 bytes of BigUint(4, ..), Int(5) writes 33
\* bytes, and Int(64) shifts a usize by 64 bits.
C22_BigIntegers ==
    BigRun =>
        /\ serialized.res # "Panic"
        /\ Root.n = 5 =>
              IF Len(gvalue.v) = 32
              THEN serialized = SerOk(32, gvalue.v) /\ wire = gvalue.v
              ELSE /\ serialized =
                        SerErr(InncorrectNumberOfIntegerBytes(U64(32), Len(gvalue.v)), <<>>)
                   /\ wire = <<>>

\* get_unit_serialization_function has returned an encoder
SerSynthesized == mode = "value" /\ pc # "start" /\ unit_ser.ok

\* the encoder that the body of the name n gets when every name has its cell
BodySer(n) ==
    get_unit_serialization_function_internal(
        schema.heap, schema.heap[n].cs, unit_ser.cells).ser

RECURSIVE ListValue(_), ListBytes(_)
\* a value of the recursive tuple: an integer and an Optional that holds
\* nothing or such a value
ListValue(v) ==
    /\ v.k = "Tuple" /\ Len(v.v) = 2
    /\ v.v[1].k \in {"Int32", "Uint8"}
    /\ Len(v.v[2].v) = 1 => ListValue(v.v[2].v[1])

\* its bytes: the integer (4 bytes of an i32, 1 byte of a u8), the tag of the
\* Optional and, after the tag 1, the bytes of the value it holds
ListBytes(v) ==
    to_le_bytes(v.v[1].v, IF v.v[1].k = "Int32" THEN 4 ELSE 1)
        \o (IF Len(v.v[2].v) = 0 THEN <<0>> ELSE <<1>> \o ListBytes(v.v[2].v[1]))

\* the encoder of a recursive name was run on a value of its body
NameRun ==
    /\ mode = "value" /\ pc = "serialized"
    /\ Root.k = "Name" /\ schema.heap[Root.name].cs.structure.k = "Tuple"
    /\ ListValue(gvalue)

\* (7, Some((8, None)))
C23_Example ==
    GluinoValue("Tuple",
        <<GluinoValue("Int32", 7),
          GluinoValue("Optional",
              <<GluinoValue("Tuple", <<GluinoValue("Int32", 8),
                                       GluinoValue("Optional", <<>>)>>)>>)>>)

\* C23: once get_unit_serialization_function has returned, every cell of
\* named_unit_sers holds the encoder of the body of its name and none holds
\* the placeholder VoidGluinoValueSer, so the encoder of a Name leaf, at the
\* definition and at every later or nested occurrence, writes what the
\* encoder of the body writes; Name{List, Tuple[Int(2), Optional(Ref List)]}
\* writes (7, Some((8, None))) as 7 in 4 bytes, 1, 8 in 4 bytes, 0 and
\* returns 10.
C23_RecursiveCodec ==
    /\ SerSynthesized =>
          \A n \in DOMAIN unit_ser.cells :
              /\ unit_ser.cells[n] # VoidGluinoValueSer
              /\ unit_ser.cells[n] = BodySer(n)
    /\ NameRun =>
          /\ serialized = SerOk(Len(ListBytes(gvalue)), ListBytes(gvalue))
          /\ wire = ListBytes(gvalue)
    /\ (NameRun /\ gvalue = C23_Example) =>
          /\ wire = <<7, 0, 0, 0, 1, 8, 0, 0, 0, 0>>
          /\ serialized.n = 10

\* (7, Some((8, None))) was written in 10 bytes
C23_Witness ==
    /\ NameRun /\ Root.name = <<76>> /\ gvalue = C23_Example
    /\ unit_ser.cells[<<76>>].ser = "ProductValueSer"
    /\ serialized.res = "Ok" /\ Len(wire) = 10

----------------------------------------------------------------------------
(* Properties of the varint codec (SpecVarint): the bytes of Unrepresentable *)

\* the decoder has returned Unrepresentable(v)
UnrepresentableRun ==
    mode = "varint" /\ pc = "decoded" /\ vresult.k = "Unrepresentable"

\* C24: when variable_lenth_decode::<B> returns Unrepresentable(v) for an
\* encoded z, v read as a little-endian unsigned integer is z, for every z
\* and every width of B (268435455 into u16, 268435456 into u32).
C24_UnrepresentableValue ==
    /\ UnrepresentableRun => SameNumber(vresult.v, z)
    /\ (mode = "varint" /\ pc = "decoded" /\ z = AllOnes(27) /\ target = 2) =>
          UnrepresentableRun /\ ToNat(vresult.v) = 268435455
    /\ (mode = "varint" /\ pc = "decoded" /\ z = PowerOfTwo(28) /\ target = 4) =>
          UnrepresentableRun /\ ToNat(vresult.v) = 268435456

\* 268435456 was decoded into u32 as Unrepresentable, three bytes spilled
C24_Witness ==
    /\ UnrepresentableRun /\ z = PowerOfTwo(28) /\ target = 4
    /\ Len(vresult.v) = 5 /\ ToNat(vresult.v) = 268435456

----------------------------------------------------------------------------
(* Properties of the schema compiler (SpecCompile): the retry loop, the    *)
(* placeholders and the fingerprints of the result                         *)

\* C25 (as stated): compile returns, Ok or Err, after finitely many steps for
\* every finite Spec; every retry of a variant after InfinitelyRecursiveTypes
\* starts from a strictly smaller non_optional_names set, also when the
\* variant is an Enum or Union of no variants.
\* Violated: Enum[(f, Enum[]), (g, Bool)] is retried for ever.
C25_CompileTerminates ==
    Compiled => compiled.k # "Diverge"

\* Name{A, Enum[(f, Name{B, Ref A}), (g, Bool)]}
C26_Example ==
    Spec_Name(<<65>>, Spec_Enum(<<<<<<102>>, Spec_Name(<<66>>, Spec_Ref(<<65>>))>>,
                                  <<<<103>>, Spec_Bool>>>>))

\* C26 (as stated): compile never returns DuplicateName for a Spec in which
\* every name is bound by one Name node only: a variant attempt that fails
\* with InfinitelyRecursiveTypes leaves the context as it found it, so
\* Name{A, Enum[(f, Name{B, Ref A}), (g, Bool)]} compiles.
\* Violated: that Spec fails with DuplicateName(B).
C26_NoSpuriousDuplicate ==
    Compiled =>
        /\ (compiled.k = "Err" /\ compiled.err.k = "DuplicateName") =>
              BoundTwice(spec) # {}
        /\ spec = C26_Example => compiled.k = "Ok"

\* compile has returned Ok
CompiledOk == Compiled /\ compiled.k = "Ok"

\* the names whose resolved Arc a compiled schema in S holds
HeldBy(S) ==
    UNION {{n \in DOMAIN c.named_schema : c.named_schema[n] = "resolved"} : c \in S}

RECURSIVE ReachableNames(_)
\* the names whose bodies are reached from the bodies of names, through the
\* resolved Arcs of the named_schemas
ReachableNames(names) ==
    LET next == names \cup HeldBy(UNION {NodesOf(compiled.m.ctx[b].cs) : b \in names})
    IN IF next = names THEN names ELSE ReachableNames(next)

\* every compiled schema reachable from the result: the result, its
\* children, the bodies of the names it holds and what those reach
ReachableSchemas ==
    NodesOf(compiled.v)
        \cup UNION {NodesOf(compiled.m.ctx[b].cs)
                       : b \in ReachableNames(HeldBy(NodesOf(compiled.v)))}

\* Name{A, Name{B, Optional(Ref A)}}
C27_Example ==
    Spec_Name(<<65>>, Spec_Name(<<66>>, Spec_Optional(Spec_Ref(<<65>>))))

\* C27 (as stated): after a successful compile no named_schema reachable from
\* the result (the top one, those of nested children, those inside the bodies
\* of names, also of names defined inside the body of another name) maps a
\* name to the placeholder installed while that name was being defined.
\* Violated: in Name{A, Name{B, Optional(Ref A)}} the body of B keeps the
\* placeholder of A.
C27_NoPlaceholderLeft ==
    CompiledOk =>
        \A c \in ReachableSchemas :
            \A n \in DOMAIN c.named_schema : c.named_schema[n] # "placeholder"

\* the fingerprint of a compiled schema as its named_schema and structure
\* are when compile has returned
FinalFingerprint(c) == SpecFingerprint_new(compiled.m.ctx, c.named_schema, c.structure)

\* C28 (as stated): every compiled schema c reachable from a successful
\* compile has the fingerprint of its own final (named_schema, structure),
\* the hash of the longform bytes of c.to_spec(), also a child of a recursive
\* body that was compiled while the name was bound to the placeholder.
\* Violated: the Optional(Ref A) field of Name{A, Tuple[Int(3), Optional(Ref A)]}
\* keeps the fingerprint of Optional(Name{A, Void}).
C28_FingerprintConsistent ==
    CompiledOk =>
        \A c \in ReachableSchemas :
            FinalFingerprint(c).ok /\ c.fingerprint = FinalFingerprint(c).v

\* the sum checked at event j failed because every variant depended on
\* recursion
SumRefused(j) ==
    Log[j].k = "Err" /\ Log[j].err.k = "InfinitelyRecursiveTypes"

\* path q lies below path p with no Enum or Union strictly between them
DirectlyUnder(p, q) ==
    /\ Len(q) > Len(p) /\ SubSeq(q, 1, Len(p)) = p
    /\ \A h \in (Len(p) + 1)..(Len(q) - 1) : q[h].k \notin {"Enum", "Union"}

\* the events of the run of compile_variants_with_loop_checking that ended
\* at event j: those after the last return of a sum at the same place
RunOf(j) ==
    {h \in 1..(j - 1) : \A e \in SumEvents : (e < j /\ Log[e].path = Log[j].path) => e < h}

\* the names of the errors that the loops of the sum of event j caught: those
\* of the Refs refused and of the sums refused in its variants
Forgiven(j) ==
    UNION {IF Log[h].ev = "Ref" /\ Log[h].res = "InfinitelyRecursiveTypes"
           THEN {Log[h].name}
           ELSE IF Log[h].ev = "Sum" /\ SumRefused(h) THEN Log[h].err.names
           ELSE {}
              : h \in {h \in RunOf(j) : DirectlyUnder(Log[j].path, Log[h].path)}}

\* Name{A, Name{B, Enum[(f, Ref A), (g, Ref B)]}}
C29_Example ==
    Spec_Name(<<65>>, Spec_Name(<<66>>,
        Spec_Enum(<<<<<<102>>, Spec_Ref(<<65>>)>>, <<<<103>>, Spec_Ref(<<66>>)>>>>)))

\* C29: when an Enum or Union fails because every variant depended on
\* recursion, InfinitelyRecursiveTypes carries exactly the names forgiven
\* across all of its variants; Name{outer, Name{inner, Enum[(variant 1,
\* Ref outer), (variant 2, Ref inner)]}} fails with {outer, inner}.
C29_AggregatedNames ==
    Compiled =>
        /\ \A j \in SumEvents : SumRefused(j) => Log[j].err.names = Forgiven(j)
        /\ spec = C29_Example => FailedWith(InfinitelyRecursiveTypes({<<65>>, <<66>>}))

\* the example failed, each of its two variants forgiven one name
C29_Witness ==
    /\ Compiled /\ spec = C29_Example
    /\ FailedWith(InfinitelyRecursiveTypes({<<65>>, <<66>>}))
    /\ \E j \in SumEvents : SumRefused(j) /\ Log[j].attempts = <<2, 2>>

----------------------------------------------------------------------------
(* Properties of the value codec (SpecValue): a failing element            *)

\* the size written before the elements
SizePrefix ==
    IF unit_ser.ser.ser # "ProductValueSer" /\ need_write_size(unit_ser.ser.spec_size)
    THEN variable_length_encode(U64(Len(gvalue.v)))
    ELSE <<>>

\* the bytes written up to and by the first n elements
WrittenThrough(n) == SizePrefix \o Flat(Tup([i \in 1..n |-> ElementRun(i).out]))

\* C30: once the encoder of one element of a List, Map, Record or Tuple
\* fails, no later element (nor the value of a map entry whose key failed) is
\* encoded and nothing more is written: the call fails and the sink holds
\* the bytes written up to the failing element.
C30_AbandonOnError ==
    (ContainerRun /\ Failing # {}) =>
        LET first == CHOOSE i \in Failing : \A j \in Failing : i <= j
        IN /\ serialized.res # "Ok"
           /\ serialized.out = WrittenThrough(first)

====
